---- MODULE Spec2Model ----
(***************************************************************************)
(* claude-hooks: the rule-evaluation and decision-orchestration engine.    *)
(*                                                                         *)
(* Text is modelled as TLA+ strings, character by character: the Go        *)
(* strings.* helpers and the regexp patterns the validators compile are    *)
(* operators over the characters of the string, so that substring,         *)
(* prefix, case folding, trimming and line splitting are computed as the   *)
(* code computes them.                                                     *)
(***************************************************************************)
EXTENDS Integers, Sequences, FiniteSets, TLC

(***************************************************************************)
(* Bounds of the model.                                                    *)
(***************************************************************************)
\* most lines a scanned content is built from
MaxLines == 2
\* most checkers that return a runtime error during one engine call
MaxFaults == 1

\* suggestions merged in one call
MaxSuggestions == 4

None == "<nil>"

\* the element of a one-element set: The({e(x) : x \in {v}}) is e(v) with v
\* computed once, the way a Go local variable holds a call's result
The(S) == CHOOSE x \in S : TRUE

(***************************************************************************)
(* Go string helpers (package strings).                                    *)
(***************************************************************************)
At(s, i) == SubSeq(s, i, i)

Min(a, b) == IF a < b THEN a ELSE b

HasPrefix(s, p) == Len(s) >= Len(p) /\ SubSeq(s, 1, Len(p)) = p

HasSuffix(s, p) == Len(s) >= Len(p) /\ SubSeq(s, Len(s) - Len(p) + 1, Len(s)) = p

\* TRUE iff sub occurs in s at the 1-based position i
OccursAt(s, sub, i) == i >= 1 /\ i + Len(sub) - 1 <= Len(s) /\ SubSeq(s, i, i + Len(sub) - 1) = sub

Contains(s, sub) == \E i \in 1..(Len(s) - Len(sub) + 1) : OccursAt(s, sub, i)

\* strings.Index: 0-based position of the first occurrence, -1 when absent
Index(s, sub) ==
  IF Contains(s, sub)
    THEN (CHOOSE i \in 1..(Len(s) - Len(sub) + 1) :
            /\ OccursAt(s, sub, i)
            /\ \A j \in 1..(i - 1) : ~OccursAt(s, sub, j)) - 1
    ELSE -1

\* strings.LastIndex
LastIndex(s, sub) ==
  IF Contains(s, sub)
    THEN (CHOOSE i \in 1..(Len(s) - Len(sub) + 1) :
            /\ OccursAt(s, sub, i)
            /\ \A j \in (i + 1)..(Len(s) - Len(sub) + 1) : ~OccursAt(s, sub, j)) - 1
    ELSE -1

UpperChars == "ABCDEFGHIJKLMNOPQRSTUVWXYZ"
LowerChars == "abcdefghijklmnopqrstuvwxyz"
DigitChars == "0123456789"
\* the characters \s of a Go regexp and unicode.IsSpace, as far as they are ASCII
SpaceChars == " \t\n\r\f"

InClass(c, class) == \E k \in 1..Len(class) : At(class, k) = c

LowerChar(c) ==
  IF InClass(c, UpperChars)
    THEN At(LowerChars, CHOOSE k \in 1..Len(UpperChars) : At(UpperChars, k) = c)
    ELSE c

RECURSIVE ToLower(_)
ToLower(s) ==
  The({IF Len(v) <= 1 THEN LowerChar(v)
       ELSE ToLower(SubSeq(v, 1, Len(v) \div 2)) \o ToLower(SubSeq(v, Len(v) \div 2 + 1, Len(v))) :
         v \in {s}})

EqualFold(a, b) == ToLower(a) = ToLower(b)

RECURSIVE TrimLeft(_)
TrimLeft(s) ==
  The({IF v # "" /\ InClass(Head(v), SpaceChars) THEN TrimLeft(Tail(v)) ELSE v : v \in {s}})

RECURSIVE TrimRight(_)
TrimRight(s) ==
  The({IF v # "" /\ InClass(At(v, Len(v)), SpaceChars)
         THEN TrimRight(SubSeq(v, 1, Len(v) - 1)) ELSE v : v \in {s}})

TrimSpace(s) == TrimRight(TrimLeft(s))

\* strings.Split(s, sep) for a one-character sep: always at least one part
RECURSIVE Split(_, _)
Split(s, sep) ==
  The({IF i = -1 THEN <<v>>
       ELSE <<SubSeq(v, 1, i)>> \o Split(SubSeq(v, i + 2, Len(v)), sep) :
         v \in {s}, i \in {Index(s, sep)}})

\* some element of the list is contained in s (the "for ... if strings.Contains" loops)
ContainsAny(s, list) == \E k \in 1..Len(list) : Contains(s, list[k])

HasSuffixAny(s, list) == \E k \in 1..Len(list) : HasSuffix(s, list[k])

RECURSIVE Flatten(_)
Flatten(ss) ==
  The({IF v = <<>> THEN <<>> ELSE Head(v) \o Flatten(Tail(v)) : v \in {ss}})

(***************************************************************************)
(* Compiled regular expressions.  A pattern is its source text and a list  *)
(* of elements, each either an alternation of literals (k = "lit") or a    *)
(* repetition class{min,max} of one character class (k = "rep", max = -1   *)
(* for no upper limit).  Every pattern the validators compile has this     *)
(* shape, and in each of them the character after a repetition is outside  *)
(* the repeated class, so the greedy match below is the leftmost-first     *)
(* match of Go's regexp.                                                   *)
(***************************************************************************)
Lit(alts) == [k |-> "lit", alts |-> alts, class |-> "", min |-> 0, max |-> 0]
Rep(class, min, max) == [k |-> "rep", alts |-> <<>>, class |-> class, min |-> min, max |-> max]

\* number of consecutive characters of class in line from pos on, at most max
RepCount(line, pos, class, max) ==
  LET most == IF max = -1 THEN Len(line) - pos + 1 ELSE Min(max, Len(line) - pos + 1)
  IN  CHOOSE n \in 0..most :
        /\ \A j \in 0..(n - 1) : InClass(At(line, pos + j), class)
        /\ n = most \/ ~InClass(At(line, pos + n), class)

\* position just after the match of elems[k..] that starts at pos, 0 if none
RECURSIVE MatchFrom(_, _, _, _)
MatchFrom(line, pos, elems, k) ==
  IF k > Len(elems) THEN pos
  ELSE LET e == elems[k] IN
    IF e.k = "lit"
      THEN IF \E a \in 1..Len(e.alts) : OccursAt(line, e.alts[a], pos)
             THEN LET a == CHOOSE a \in 1..Len(e.alts) :
                             /\ OccursAt(line, e.alts[a], pos)
                             /\ \A b \in 1..(a - 1) : ~OccursAt(line, e.alts[b], pos)
                  IN  MatchFrom(line, pos + Len(e.alts[a]), elems, k + 1)
             ELSE 0
      ELSE LET n == RepCount(line, pos, e.class, e.max) IN
           IF n < e.min THEN 0 ELSE MatchFrom(line, pos + n, elems, k + 1)

\* Regexp.FindAllStringIndex(line, -1): leftmost, non-overlapping; a location
\* is [s, e) in 1-based positions
RECURSIVE FindAllFrom(_, _, _)
FindAllFrom(line, pos, elems) ==
  The({IF starts = {} THEN <<>>
       ELSE The({<<[s |-> s, e |-> e]>> \o FindAllFrom(line, e, elems) :
                   s \in {CHOOSE p \in starts : \A q \in starts : p <= q},
                   e \in {MatchFrom(line, CHOOSE p \in starts : \A q \in starts : p <= q, elems, 1)}}) :
         starts \in {{p \in pos..Len(line) : MatchFrom(line, p, elems, 1) # 0}}})

FindAllStringIndex(pattern, line) == FindAllFrom(line, 1, pattern.elems)

\* Regexp.MatchString
MatchString(pattern, s) == \E i \in 1..Len(s) : MatchFrom(s, i, pattern.elems, 1) # 0

(***************************************************************************)
(* package shared: the pattern matcher.                                    *)
(***************************************************************************)
\* FindPatternMatches that reports the first occurrence of a pattern in a line only
FindPatternMatchesFirst(content, patterns) ==
  LET ofPattern(line, lineNum, pattern) ==
        The({[i \in 1..Min(1, Len(locations)) |->
                [Line    |-> lineNum,
                 Column  |-> locations[i].s,
                 Text    |-> SubSeq(line, locations[i].s, locations[i].e - 1),
                 Pattern |-> pattern.src]] :
              locations \in {FindAllStringIndex(pattern, line)}})
      ofLine(line, lineNum) ==
        Flatten([p \in 1..Len(patterns) |-> ofPattern(line, lineNum, patterns[p])])
  IN  The({Flatten([lineNum \in 1..Len(lines) |-> ofLine(lines[lineNum], lineNum)]) :
             lines \in {Split(content, "\n")}})

FindPatternMatches(content, patterns) ==
  LET ofPattern(line, lineNum, pattern) ==
        The({[i \in 1..Len(locations) |->
                [Line    |-> lineNum,
                 Column  |-> locations[i].s,
                 Text    |-> SubSeq(line, locations[i].s, locations[i].e - 1),
                 Pattern |-> pattern.src]] :
              locations \in {FindAllStringIndex(pattern, line)}})
      ofLine(line, lineNum) ==
        Flatten([p \in 1..Len(patterns) |-> ofPattern(line, lineNum, patterns[p])])
  IN  The({Flatten([lineNum \in 1..Len(lines) |-> ofLine(lines[lineNum], lineNum)]) :
             lines \in {Split(content, "\n")}})

CreateViolation(match, violationType, message, suggestion, severity) ==
  [Type |-> violationType, Message |-> message, Suggestion |-> suggestion,
   Line |-> match.Line, Column |-> match.Column, Severity |-> severity]

(***************************************************************************)
(* package shared: the exception resolver.                                 *)
(***************************************************************************)
GetFileName(filePath) ==
  LET parts == Split(filePath, "/")
      fileName == parts[Len(parts)]
      dotIndex == LastIndex(fileName, ".")
  IN  IF dotIndex > 0 THEN SubSeq(fileName, 1, dotIndex) ELSE fileName

IsDocumentationFile(filePath) ==
  \/ HasSuffixAny(ToLower(filePath), <<".md", ".txt", ".rst", ".adoc">>)
  \/ \E docFile \in {"README", "CHANGELOG", "LICENSE", "AUTHORS", "CONTRIBUTORS"} :
        EqualFold(GetFileName(filePath), docFile)
  \/ ContainsAny(filePath, <<"/docs/", "/doc/", "/documentation/">>)

IsTestFile(filePath) ==
  \/ HasSuffix(filePath, "_test.go")
  \/ ContainsAny(filePath, <<"/test/", "/tests/", "/testing/">>)
  \/ HasSuffixAny(filePath, <<".test.ts", ".test.js", ".test.tsx", ".test.jsx",
                              ".spec.ts", ".spec.js", ".spec.tsx", ".spec.jsx">>)

\* IsExceptionFile that does not look for test files
IsExceptionFileNoTests(filePath, exceptions) ==
  \/ ContainsAny(filePath, exceptions)
  \/ IsDocumentationFile(filePath)

IsExceptionFile(filePath, exceptions) ==
  \/ ContainsAny(filePath, exceptions)
  \/ IsDocumentationFile(filePath)
  \/ IsTestFile(filePath)

IsSupportedFileType(filePath, supportedExtensions) ==
  HasSuffixAny(ToLower(filePath), supportedExtensions)

(***************************************************************************)
(* package core: severities, actions, the file snapshot.                   *)
(***************************************************************************)
LevelCritical == "critical"
LevelWarning == "warning"
LevelInfo == "info"

HookActionAllow == "allow"
HookActionBlock == "block"
HookActionWarn == "warn"

getFileExtension(filePath) ==
  LET parts == Split(filePath, ".")
  IN  IF Len(parts) > 1 THEN "." \o parts[Len(parts)] ELSE ""

\* a *FileAnalysis; nil (the field nil set) for an event without a file path
NilFile == [nil |-> TRUE, Path |-> "", Extension |-> "", Content |-> ""]

CreateFileAnalysis(in) ==
  IF in.FilePath = "" THEN NilFile
  ELSE [nil       |-> FALSE,
        Path      |-> in.FilePath,
        Extension |-> getFileExtension(in.FilePath),
        Content   |-> IF in.Content # "" THEN in.Content
                      ELSE IF in.NewString # "" THEN in.NewString ELSE ""]

\* a *ToolInput: the nil pointer, and an event.  ref is the identity of the
\* object the pointer refers to: 0 for the event parsed from standard input,
\* a greater number for an object allocated later
NilInput ==
  [nil |-> TRUE, ref |-> -1, ToolName |-> "", FilePath |-> "", Content |-> "", NewString |-> "",
   Command |-> "", TranscriptPath |-> ""]

ToolInput(toolName, filePath, content, newString, command) ==
  [nil |-> FALSE, ref |-> 0, ToolName |-> toolName, FilePath |-> filePath, Content |-> content,
   NewString |-> newString, Command |-> command, TranscriptPath |-> ""]

\* &core.ValidationResult{IsValid: true}
ValidEmpty ==
  [IsValid |-> TRUE, Violations |-> <<>>, Suggestions |-> <<>>, ModifiedToolInput |-> NilInput]

(***************************************************************************)
(* package validators.  A validator is the record its constructor builds   *)
(* from a ValidatorConfig; messages and suggestions are abbreviated to     *)
(* ASCII tags, one per distinct text of the source.                         *)
(***************************************************************************)
NewBaseValidator(name, vc) ==
  [name |-> name, enabled |-> vc.Enabled, exceptions |-> vc.ExceptionPaths,
   goFilesOnly |-> FALSE, testExceptions |-> <<>>, testConfigExceptions |-> <<>>]

BaseIsExceptionFile(v, filePath) == IsExceptionFile(filePath, v.exceptions)

(***************************************************************************)
(* EmergencyDefaultsValidator                                              *)
(***************************************************************************)
NewEmergencyDefaultsValidator(vc) == NewBaseValidator("emergency_defaults", vc)

\* "fall" + "back"
word == "fall" \o "back"

\* the backquote character: a TLA+ string cannot hold it, so the model's
\* alphabet writes it as ^ (which no modelled text uses otherwise)
Backquote == "^"

hasLiteralAfterOr(line) ==
  LET idx == Index(line, "||") IN
  IF idx = -1 THEN FALSE
  ELSE LET after == TrimSpace(SubSeq(line, idx + 3, Len(line))) IN
       IF Len(after) > 0
         THEN LET ch == Head(after)
              IN  ch = "\"" \/ ch = "'" \/ ch = Backquote \/ InClass(ch, DigitChars)
         ELSE FALSE

hasLiteralAfterNullish(line) ==
  LET idx == Index(line, "??") IN
  IF idx = -1 THEN FALSE
  ELSE LET after == TrimSpace(SubSeq(line, idx + 3, Len(line))) IN
       IF Len(after) > 0
         THEN LET ch == Head(after)
              IN  ch = "\"" \/ ch = "'" \/ ch = Backquote \/ InClass(ch, DigitChars)
         ELSE FALSE

\* isNormalGoConstruct without the switch/select default case
isNormalGoConstructNoBranch(line) ==
  \/ Contains(line, Backquote) /\ Contains(line, "default")
  \/ Contains(line, "func") /\ Contains(line, "Default")

isNormalGoConstruct(line) ==
  \/ Contains(line, "default:")
  \/ Contains(line, Backquote) /\ Contains(line, "default")
  \/ Contains(line, "func") /\ Contains(line, "Default")

\* isComment that knows the # comments only
isCommentHashOnly(line) == HasPrefix(line, "#")

isComment(line) ==
  \/ HasPrefix(line, "//")
  \/ HasPrefix(line, "#")
  \/ HasPrefix(line, "/*") \/ HasPrefix(line, "/**")
  \/ HasPrefix(line, "*")

EDViolation(message, suggestion, lineNum, column) ==
  [Type |-> "critical_default", Message |-> message, Suggestion |-> suggestion,
   Line |-> lineNum, Column |-> column, Severity |-> LevelCritical]

\* findLineViolations that compares the word as it is written
findLineViolationsCaseSensitive(line, lineNum) ==
  LET trimmed == TrimSpace(line) IN
  IF trimmed = "" THEN <<>>
  ELSE IF isNormalGoConstruct(trimmed) THEN <<>>
  ELSE IF isComment(trimmed) THEN <<>>
  ELSE IF Contains(trimmed, word)
    THEN <<EDViolation("forbidden word in executable code", "use explicit validation",
                       lineNum, Index(trimmed, word) + 1)>>
  ELSE IF Contains(trimmed, "||") /\ hasLiteralAfterOr(trimmed)
    THEN <<EDViolation("|| default pattern", "explicit validation: throw", lineNum,
                       Index(trimmed, "||") + 1)>>
  ELSE IF Contains(trimmed, "??") /\ hasLiteralAfterNullish(trimmed)
    THEN <<EDViolation("?? default pattern", "explicit validation instead of ??", lineNum,
                       Index(trimmed, "??") + 1)>>
  ELSE IF Contains(trimmed, ":-") /\ Contains(trimmed, "}")
    THEN <<EDViolation("bash default pattern", "explicit check: if -z", lineNum,
                       Index(trimmed, ":-") + 1)>>
  ELSE <<>>

\* findLineViolations that goes on to the next rule after a rule has matched
findLineViolationsEveryRule(line, lineNum) ==
  LET trimmed == TrimSpace(line) IN
  IF trimmed = "" THEN <<>>
  ELSE IF isNormalGoConstruct(trimmed) THEN <<>>
  ELSE IF isComment(trimmed) THEN <<>>
  ELSE
    (IF Contains(ToLower(trimmed), word)
       THEN <<EDViolation("forbidden word in executable code", "use explicit validation",
                          lineNum, Index(ToLower(trimmed), word) + 1)>>
       ELSE <<>>)
    \o (IF Contains(trimmed, "||") /\ hasLiteralAfterOr(trimmed)
          THEN <<EDViolation("|| default pattern", "explicit validation: throw", lineNum,
                             Index(trimmed, "||") + 1)>>
          ELSE <<>>)
    \o (IF Contains(trimmed, "??") /\ hasLiteralAfterNullish(trimmed)
          THEN <<EDViolation("?? default pattern", "explicit validation instead of ??", lineNum,
                             Index(trimmed, "??") + 1)>>
          ELSE <<>>)
    \o (IF Contains(trimmed, ":-") /\ Contains(trimmed, "}")
          THEN <<EDViolation("bash default pattern", "explicit check: if -z", lineNum,
                             Index(trimmed, ":-") + 1)>>
          ELSE <<>>)

\* one pass of the loop body of findViolations: the violations line lineNum adds
findLineViolations(line, lineNum) ==
  LET trimmed == TrimSpace(line) IN
  IF trimmed = "" THEN <<>>
  ELSE IF isNormalGoConstruct(trimmed) THEN <<>>
  ELSE IF isComment(trimmed) THEN <<>>
  ELSE IF Contains(ToLower(trimmed), word)
    THEN <<EDViolation("forbidden word in executable code", "use explicit validation",
                       lineNum, Index(ToLower(trimmed), word) + 1)>>
  ELSE IF Contains(trimmed, "||") /\ hasLiteralAfterOr(trimmed)
    THEN <<EDViolation("|| default pattern", "explicit validation: throw", lineNum,
                       Index(trimmed, "||") + 1)>>
  ELSE IF Contains(trimmed, "??") /\ hasLiteralAfterNullish(trimmed)
    THEN <<EDViolation("?? default pattern", "explicit validation instead of ??", lineNum,
                       Index(trimmed, "??") + 1)>>
  ELSE IF Contains(trimmed, ":-") /\ Contains(trimmed, "}")
    THEN <<EDViolation("bash default pattern", "explicit check: if -z", lineNum,
                       Index(trimmed, ":-") + 1)>>
  ELSE <<>>

findViolations(content) ==
  LET lines == Split(content, "\n")
  IN  Flatten([lineNum \in 1..Len(lines) |-> findLineViolations(lines[lineNum], lineNum)])

EDGenerateSuggestions ==
  <<"remove default values", "use explicit validation", "configuration errors must be explicit">>

EDIsExceptionFile(v, filePath) ==
  \/ BaseIsExceptionFile(v, filePath)
  \/ ContainsAny(filePath, <<"/test-config.", "/fixture", "/mock", "/stub",
                             ".example", ".sample", ".template">>)

EDSupportedExtensions == <<".go", ".ts", ".js", ".tsx", ".jsx", ".py", ".sh", ".bash">>

EDValidate(v, file) ==
  IF ~v.enabled THEN ValidEmpty
  ELSE IF EDIsExceptionFile(v, file.Path) THEN ValidEmpty
  ELSE IF ~IsSupportedFileType(file.Path, EDSupportedExtensions) THEN ValidEmpty
  ELSE LET violations == findViolations(file.Content) IN
    IF Len(violations) = 0 THEN ValidEmpty
    ELSE [IsValid |-> FALSE, Violations |-> violations,
          Suggestions |-> EDGenerateSuggestions, ModifiedToolInput |-> NilInput]

(***************************************************************************)
(* RuntimeExitValidator                                                    *)
(***************************************************************************)
NewRuntimeExitValidator(vc) ==
  [NewBaseValidator("runtime_exit", vc) EXCEPT
     !.goFilesOnly = vc.GoFilesOnly, !.testExceptions = vc.TestExceptions]

\* name\s*\(
CallPattern(name, src) == [src |-> src, elems |-> <<Lit(<<name>>), Rep(SpaceChars, 0, -1), Lit(<<"(">>)>>]

exitPatterns ==
  <<CallPattern("pa" \o "nic", "panic\\s*\\("),
    CallPattern("log." \o "Fat" \o "al", "log\\.Fatal\\s*\\("),
    CallPattern("log." \o "Fat" \o "alf", "log\\.Fatalf\\s*\\("),
    CallPattern("log." \o "Fat" \o "alln", "log\\.Fatalln\\s*\\("),
    CallPattern("os." \o "Ex" \o "it", "os\\.Exit\\s*\\(")>>

REisTestFile(v, filePath) == IsTestFile(filePath) \/ ContainsAny(filePath, v.testExceptions)

\* determineViolationType without the first family
determineViolationTypeNoFirst(matchText) ==
  IF Contains(matchText, "Fat" \o "al") THEN "log_fatal_usage"
  ELSE "critical_exit"

determineViolationType(matchText) ==
  IF Contains(matchText, "pa" \o "nic") THEN "runtime_exit_usage"
  ELSE IF Contains(matchText, "Fat" \o "al") THEN "log_fatal_usage"
  ELSE "critical_exit"

generateViolationMessage(violationType) ==
  CASE violationType = "runtime_exit_usage" -> "critical exit forbidden in production code"
    [] violationType = "log_fatal_usage" -> "critical logging not recommended in production code"
    [] violationType = "critical_exit" -> "critical program termination in production code"
    [] OTHER -> "critical violation in production code"

generateSuggestion(violationType) ==
  CASE violationType = "runtime_exit_usage" -> "return fmt.Errorf instead of critical exit"
    [] violationType = "log_fatal_usage" -> "logger.Error and graceful shutdown"
    [] violationType = "critical_exit" -> "graceful error handling instead of forced exit"
    [] OTHER -> "implement proper error handling"

recoverPattern ==
  [src |-> "recover\\s*\\(\\s*\\)",
   elems |-> <<Lit(<<"recover">>), Rep(SpaceChars, 0, -1), Lit(<<"(">>),
               Rep(SpaceChars, 0, -1), Lit(<<")">>)>>]

containsRecoverPattern(content) == MatchString(recoverPattern, content)

\* generateSuggestions without the suggestions that depend on the content
REGenerateSuggestionsGeneral(file) ==
  <<"use error returns", "graceful error handling at application level",
    "add context.Context", "defer recover() only in critical places",
    "document all errors in godoc">>

REGenerateSuggestions(file) ==
  <<"use error returns", "graceful error handling at application level",
    "add context.Context", "defer recover() only in critical places",
    "document all errors in godoc">>
  \o (IF containsRecoverPattern(file.Content)
        THEN <<"recover() must be architecturally justified", "consider alternatives for error handling">>
        ELSE <<>>)
  \o (IF Contains(file.Content, "func main()")
        THEN <<"main() may use critical logging for init errors", "consider cobra.Command with RunE">>
        ELSE <<>>)

REIsExceptionFile(v, filePath) ==
  \/ BaseIsExceptionFile(v, filePath)
  \/ ContainsAny(filePath, <<"/cmd/", "/main.go", "/examples/", "/demo/", "/benchmark/", "_bench.go">>)

REValidate(v, file) ==
  IF ~v.enabled THEN ValidEmpty
  ELSE IF v.goFilesOnly /\ ~HasSuffix(file.Path, ".go") THEN ValidEmpty
  ELSE IF REIsExceptionFile(v, file.Path) THEN ValidEmpty
  ELSE IF REisTestFile(v, file.Path) THEN ValidEmpty
  ELSE LET matches == FindPatternMatches(file.Content, exitPatterns) IN
    IF Len(matches) = 0 THEN ValidEmpty
    ELSE [IsValid |-> FALSE,
          Violations |-> [i \in 1..Len(matches) |->
             LET violationType == determineViolationType(matches[i].Text) IN
             CreateViolation(matches[i], violationType, generateViolationMessage(violationType),
                             generateSuggestion(violationType), LevelCritical)],
          Suggestions |-> REGenerateSuggestions(file),
          ModifiedToolInput |-> NilInput]

(***************************************************************************)
(* SecretsValidator                                                        *)
(***************************************************************************)
NewSecretsValidator(vc) ==
  [NewBaseValidator("secrets", vc) EXCEPT !.testConfigExceptions = vc.TestConfigExceptions]

AlnumChars == LowerChars \o UpperChars \o DigitChars
HexChars == "abcdef" \o "ABCDEF" \o DigitChars

jwtPattern ==
  [src |-> "eyJ[a-zA-Z0-9+/]+", elems |-> <<Lit(<<"eyJ">>), Rep(AlnumChars \o "+/", 1, -1)>>]

\* walletPattern that asks for 41 hexadecimal digits
walletPattern41 ==
  [src |-> "0x[a-fA-F0-9]{41}", elems |-> <<Lit(<<"0x">>), Rep(HexChars, 41, 41)>>]

walletPattern ==
  [src |-> "0x[a-fA-F0-9]{40}", elems |-> <<Lit(<<"0x">>), Rep(HexChars, 40, 40)>>]

apiKeyPattern ==
  [src |-> "(sk_|pk_|api_key_|access_token_)[a-zA-Z0-9]{20,}",
   elems |-> <<Lit(<<"sk_", "pk_", "api_key_", "access_token_">>), Rep(AlnumChars, 20, -1)>>]

\* pat, in which * stands for any run of characters, matches the whole of s
RECURSIVE GlobMatch(_, _)
GlobMatch(s, pat) ==
  IF Len(pat) = 0 THEN Len(s) = 0
  ELSE IF At(pat, 1) = "*"
    THEN GlobMatch(s, SubSeq(pat, 2, Len(pat)))
         \/ (Len(s) > 0 /\ GlobMatch(SubSeq(s, 2, Len(s)), pat))
  ELSE Len(s) > 0 /\ At(s, 1) = At(pat, 1)
       /\ GlobMatch(SubSeq(s, 2, Len(s)), SubSeq(pat, 2, Len(pat)))

\* isTestConfigException that also takes its entries for glob patterns
isTestConfigExceptionGlob(v, filePath) ==
  \/ ContainsAny(filePath, v.testConfigExceptions)
  \/ \E k \in 1..Len(v.testConfigExceptions) : GlobMatch(filePath, v.testConfigExceptions[k])

isTestConfigException(v, filePath) == ContainsAny(filePath, v.testConfigExceptions)

\* checkJWTTokens / checkWalletAddresses / checkAPIKeys
checkSecretPattern(v, file, pattern, violationType, message, suggestion) ==
  LET matches == FindPatternMatches(file.Content, <<pattern>>) IN
  IF isTestConfigException(v, file.Path) THEN <<>>
  ELSE [i \in 1..Len(matches) |->
          CreateViolation(matches[i], violationType, message, suggestion, LevelCritical)]

SecretsGenerateSuggestions(file) ==
  LET ext == ToLower(file.Extension) IN
  (CASE ext = ".go" -> <<"use os.Getenv()", "validate required variables at start", "use unified config">>
     [] ext \in {".ts", ".js", ".tsx", ".jsx"} ->
          <<"use process.env", "create test-config.ts", "use TEST_ACCOUNTS constants">>
     [] ext \in {".json", ".yaml", ".yml"} ->
          <<"use environment variable substitution", "separate configs per environment",
            "document required environment variables">>
     [] OTHER -> <<>>)
  \o <<"never commit real secrets", "use .env files locally", "consider secret managers",
       "fixed test data in separate files">>

SecretsIsExceptionFile(v, filePath) ==
  \/ BaseIsExceptionFile(v, filePath)
  \/ ContainsAny(filePath, <<"/example", "/sample", "/template", "/demo",
                             ".example", ".sample", ".template",
                             "/fixtures/", "/mocks/", "/stubs/">>)
  \/ isTestConfigException(v, filePath)

SecretsSupportedExtensions == <<".go", ".ts", ".js", ".tsx", ".jsx", ".py", ".json", ".yaml", ".yml">>

SecretsValidate(v, file) ==
  IF ~v.enabled THEN ValidEmpty
  ELSE IF SecretsIsExceptionFile(v, file.Path) THEN ValidEmpty
  ELSE IF ~IsSupportedFileType(file.Path, SecretsSupportedExtensions) THEN ValidEmpty
  ELSE LET violations ==
             checkSecretPattern(v, file, jwtPattern, "hardcoded_jwt",
                                "hardcoded JWT token", "use environment variables or test-config")
          \o checkSecretPattern(v, file, walletPattern, "hardcoded_wallet",
                                "hardcoded wallet address", "use TEST_ACCOUNTS or environment variables")
          \o checkSecretPattern(v, file, apiKeyPattern, "hardcoded_api_key",
                                "hardcoded API key", "use environment variables or a config file")
       IN
    IF Len(violations) = 0 THEN ValidEmpty
    ELSE [IsValid |-> FALSE, Violations |-> violations,
          Suggestions |-> SecretsGenerateSuggestions(file), ModifiedToolInput |-> NilInput]

\* Validator.Validate, dispatched on the concrete type
Validate(v, file) ==
  CASE v.name = "emergency_defaults" -> EDValidate(v, file)
    [] v.name = "runtime_exit" -> REValidate(v, file)
    [] v.name = "secrets" -> SecretsValidate(v, file)

(***************************************************************************)
(* package tools.  A tool checker is the record its constructor builds     *)
(* from a ToolConfig.  What a tool reads from outside the process is the   *)
(* environment env of the call: env.format is what the external formatter  *)
(* binary does ("missing", "ok" or "fail"), env.project the project name   *)
(* the notifier derives from the working directory.                        *)
(***************************************************************************)
NewBaseTool(name, enabled, supportedTools) ==
  [name |-> name, enabled |-> enabled, supportedTools |-> supportedTools,
   blockedPatterns |-> <<>>, goFormat |-> FALSE, tsFormat |-> FALSE]

NewBashTool(tc) ==
  [NewBaseTool("bash", tc.Enabled, <<"Bash">>) EXCEPT
     !.blockedPatterns = IF Len(tc.BlockedPatterns) = 0 THEN tc.DangerousCommands
                         ELSE tc.BlockedPatterns]

NewFormatterTool(tc) ==
  [NewBaseTool("formatter", tc.Enabled, <<"Write", "Edit", "MultiEdit">>) EXCEPT
     !.goFormat = tc.GoFormat, !.tsFormat = tc.TSFormat]

NewNotifierTool(tc) == NewBaseTool("notifier", tc.Enabled, <<"Stop">>)

extractCommand(in) == IF in.ToolName # "Bash" THEN "" ELSE in.Command

extractFilePath(in) == in.FilePath

\* BashValidateTool that stops at the first blocked pattern it finds
BashValidateToolFirstMatch(t, in) ==
  IF ~t.enabled THEN ValidEmpty
  ELSE IF in.ToolName # "Bash" THEN ValidEmpty
  ELSE LET command == extractCommand(in)
           found == {i \in 1..Len(t.blockedPatterns) : Contains(command, t.blockedPatterns[i])}
       IN
    IF command = "" \/ found = {} THEN ValidEmpty
    ELSE LET pattern == t.blockedPatterns[CHOOSE i \in found : \A j \in found : i <= j] IN
      [IsValid |-> FALSE,
       Violations |-> <<[Type |-> "dangerous_bash_command",
                         Message |-> "Dangerous bash command detected: " \o pattern,
                         Suggestion |-> "Avoid potentially destructive commands",
                         Line |-> 1, Column |-> Index(command, pattern) + 1,
                         Severity |-> LevelCritical]>>,
       Suggestions |-> <<>>, ModifiedToolInput |-> NilInput]

\* BashValidateTool that looks at the command field of every event kind
BashValidateToolAnyKind(t, in) ==
  IF ~t.enabled THEN ValidEmpty
  ELSE LET command == in.Command IN
    IF command = "" THEN ValidEmpty
    ELSE LET violations ==
               Flatten([i \in 1..Len(t.blockedPatterns) |->
                 IF Contains(command, t.blockedPatterns[i])
                   THEN <<[Type |-> "dangerous_bash_command",
                           Message |-> "Dangerous bash command detected: " \o t.blockedPatterns[i],
                           Suggestion |-> "Avoid potentially destructive commands",
                           Line |-> 1,
                           Column |-> Index(command, t.blockedPatterns[i]) + 1,
                           Severity |-> LevelCritical]>>
                   ELSE <<>>])
         IN [IsValid |-> Len(violations) = 0, Violations |-> violations,
             Suggestions |-> <<>>, ModifiedToolInput |-> NilInput]

BashValidateTool(t, in) ==
  IF ~t.enabled THEN ValidEmpty
  ELSE IF in.ToolName # "Bash" THEN ValidEmpty
  ELSE LET command == extractCommand(in) IN
    IF command = "" THEN ValidEmpty
    ELSE LET violations ==
               Flatten([i \in 1..Len(t.blockedPatterns) |->
                 IF Contains(command, t.blockedPatterns[i])
                   THEN <<[Type |-> "dangerous_bash_command",
                           Message |-> "Dangerous bash command detected: " \o t.blockedPatterns[i],
                           Suggestion |-> "Avoid potentially destructive commands",
                           Line |-> 1,
                           Column |-> Index(command, t.blockedPatterns[i]) + 1,
                           Severity |-> LevelCritical]>>
                   ELSE <<>>])
         IN [IsValid |-> Len(violations) = 0, Violations |-> violations,
             Suggestions |-> <<>>, ModifiedToolInput |-> NilInput]

isGoFile(filePath) == HasSuffix(filePath, ".go")

isTSFile(filePath) ==
  HasSuffix(filePath, ".ts") \/ HasSuffix(filePath, ".tsx") \/
  HasSuffix(filePath, ".js") \/ HasSuffix(filePath, ".jsx")

FormatViolation(message, suggestion) ==
  [Type |-> "format_error", Message |-> message, Suggestion |-> suggestion,
   Line |-> 0, Column |-> 0, Severity |-> LevelWarning]

\* one "if t.xFormat && t.isXFile(filePath)" block: what it appends
FormatBlock(on, env, message, suggestion, done) ==
  IF on /\ env.format = "fail"
    THEN [v |-> <<FormatViolation(message, suggestion)>>, s |-> <<>>]
  ELSE IF on /\ env.format = "ok" THEN [v |-> <<>>, s |-> <<done>>]
  ELSE [v |-> <<>>, s |-> <<>>]

FormatterValidateTool(t, phase, in, env) ==
  IF ~t.enabled THEN ValidEmpty
  ELSE IF phase # "post" THEN ValidEmpty
  ELSE LET filePath == extractFilePath(in) IN
    IF filePath = "" THEN ValidEmpty
    ELSE LET go == FormatBlock(t.goFormat /\ isGoFile(filePath), env,
                               "Go format error", "check Go syntax", "Go file formatted")
             ts == FormatBlock(t.tsFormat /\ isTSFile(filePath), env,
                               "TS format error", "check TypeScript syntax", "TypeScript file formatted")
         IN [IsValid |-> TRUE, Violations |-> go.v \o ts.v,
             Suggestions |-> go.s \o ts.s, ModifiedToolInput |-> NilInput]

\* NotifierValidateTool without the check of its enable flag
NotifierValidateToolAlways(t, in, env) ==
  IF in.ToolName # "Stop" THEN ValidEmpty
  ELSE [IsValid |-> TRUE,
        Violations |-> <<[Type |-> "notification_sent",
                          Message |-> "session [" \o env.project \o "] completed",
                          Suggestion |-> "Notifications activated for project [" \o env.project \o "]",
                          Line |-> 0, Column |-> 0, Severity |-> LevelInfo]>>,
        Suggestions |-> <<"Notifications sent for project [" \o env.project \o "]">>,
        ModifiedToolInput |-> NilInput]

NotifierValidateTool(t, in, env) ==
  IF ~t.enabled THEN ValidEmpty
  ELSE IF in.ToolName # "Stop" THEN ValidEmpty
  ELSE [IsValid |-> TRUE,
        Violations |-> <<[Type |-> "notification_sent",
                          Message |-> "session [" \o env.project \o "] completed",
                          Suggestion |-> "Notifications activated for project [" \o env.project \o "]",
                          Line |-> 0, Column |-> 0, Severity |-> LevelInfo]>>,
        Suggestions |-> <<"Notifications sent for project [" \o env.project \o "]">>,
        ModifiedToolInput |-> NilInput]

\* A ToolValidator other than the three of the package: what its
\* ValidateTool returns in ModifiedToolInput is env.rewrites[t.name], nil
\* (None), the pointer it was handed ("<same>") or a new event holding the
\* command env.rewrites[t.name]; its suggestion tells the command it was
\* handed.
NewRewriterTool(name) == NewBaseTool(name, TRUE, <<"Bash">>)

RewriterValidateTool(t, in, env) ==
  LET rewrite == IF t.name \in DOMAIN env.rewrites THEN env.rewrites[t.name] ELSE None
  IN  [IsValid |-> TRUE, Violations |-> <<>>,
       Suggestions |-> <<t.name \o " got: " \o in.Command>>,
       ModifiedToolInput |->
         IF rewrite = None THEN NilInput
         ELSE IF rewrite = "<same>" THEN in
         ELSE [in EXCEPT !.ref = @ + 1, !.Command = rewrite]]

\* ToolValidator.ValidateTool, dispatched on the concrete type; phase is the
\* "hook_phase" value of the context
ValidateTool(t, phase, in, env) ==
  CASE t.name = "bash" -> BashValidateTool(t, in)
    [] t.name = "formatter" -> FormatterValidateTool(t, phase, in, env)
    [] t.name = "notifier" -> NotifierValidateTool(t, in, env)
    [] OTHER -> RewriterValidateTool(t, in, env)

(***************************************************************************)
(* package processor: the engine.  env.faults is the set of checkers whose *)
(* Validate / ValidateTool returns a non-nil error in this call.           *)
(***************************************************************************)
Has(m, key) == key \in DOMAIN m

\* New: initValidators then initTools
initValidators(config) ==
  (IF Has(config.Validators, "emergency_defaults") /\ config.Validators["emergency_defaults"].Enabled
     THEN <<NewEmergencyDefaultsValidator(config.Validators["emergency_defaults"])>> ELSE <<>>)
  \o (IF Has(config.Validators, "runtime_exit") /\ config.Validators["runtime_exit"].Enabled
        THEN <<NewRuntimeExitValidator(config.Validators["runtime_exit"])>> ELSE <<>>)
  \o (IF Has(config.Validators, "secrets") /\ config.Validators["secrets"].Enabled
        THEN <<NewSecretsValidator(config.Validators["secrets"])>> ELSE <<>>)

initTools(config) ==
  (IF Has(config.Tools, "notifier") /\ config.Tools["notifier"].Enabled
     THEN <<NewNotifierTool(config.Tools["notifier"])>> ELSE <<>>)
  \o (IF Has(config.Tools, "bash") /\ config.Tools["bash"].Enabled
        THEN <<NewBashTool(config.Tools["bash"])>> ELSE <<>>)
  \o (IF Has(config.Tools, "formatter") /\ config.Tools["formatter"].Enabled
        THEN <<NewFormatterTool(config.Tools["formatter"])>> ELSE <<>>)

New(config) == [config |-> config, validators |-> initValidators(config), tools |-> initTools(config)]

\* isFileOperation that takes every tool for a file operation
isFileOperationAny(toolName) == TRUE

isFileOperation(toolName) == toolName = "Write" \/ toolName = "Edit" \/ toolName = "MultiEdit"

toolSupportsOperation(tool, toolName) ==
  \E i \in 1..Len(tool.supportedTools) : tool.supportedTools[i] = toolName

\* the loop of runValidators from validator i on, acc what was collected so far
RECURSIVE runValidatorsFrom(_, _, _, _, _)
runValidatorsFrom(e, file, env, i, acc) ==
  IF i > Len(e.validators) THEN acc
  ELSE LET validator == e.validators[i] IN
    IF validator.name \in env.faults
      THEN runValidatorsFrom(e, file, env, i + 1, acc)
      ELSE The({IF ~result.IsValid
                  THEN runValidatorsFrom(e, file, env, i + 1,
                         [violations  |-> acc.violations \o result.Violations,
                          suggestions |-> acc.suggestions \o result.Suggestions,
                          err         |-> acc.err])
                  ELSE runValidatorsFrom(e, file, env, i + 1, acc) :
                result \in {Validate(validator, file)}})

\* runValidators that returns after the first validator
runValidatorsFirstOnly(e, file, env) ==
  runValidatorsFrom([e EXCEPT !.validators = SubSeq(@, 1, Min(1, Len(@)))], file, env, 1,
                    [violations |-> <<>>, suggestions |-> <<>>, err |-> None])

\* runValidators that returns what it has when a validator fails
runValidatorsStopAtError(e, file, env) ==
  LET failed == {i \in 1..Len(e.validators) : e.validators[i].name \in env.faults}
      n == IF failed = {} THEN Len(e.validators)
           ELSE (CHOOSE i \in failed : \A j \in failed : i <= j) - 1
  IN  runValidatorsFrom([e EXCEPT !.validators = SubSeq(@, 1, n)], file, env, 1,
                        [violations |-> <<>>, suggestions |-> <<>>, err |-> None])

runValidators(e, file, env) ==
  runValidatorsFrom(e, file, env, 1, [violations |-> <<>>, suggestions |-> <<>>, err |-> None])

\* runToolValidatorsFrom that hands the original event to every tool
RECURSIVE runToolValidatorsFromOriginal(_, _, _, _, _, _)
runToolValidatorsFromOriginal(e, phase, in, env, i, acc) ==
  IF i > Len(e.tools) THEN acc
  ELSE LET tool == e.tools[i] IN
    IF ~toolSupportsOperation(tool, in.ToolName)
      THEN runToolValidatorsFromOriginal(e, phase, in, env, i + 1, acc)
    ELSE IF tool.name \in env.faults
      THEN runToolValidatorsFromOriginal(e, phase, in, env, i + 1, acc)
    ELSE LET result == ValidateTool(tool, phase, in, env) IN
      runToolValidatorsFromOriginal(e, phase, in, env, i + 1,
        [acc EXCEPT !.violations = @ \o result.Violations,
                    !.suggestions = @ \o result.Suggestions,
                    !.modifiedInput = IF ~result.ModifiedToolInput.nil
                                        THEN result.ModifiedToolInput ELSE @])

\* the loop of runToolValidators from tool i on
RECURSIVE runToolValidatorsFrom(_, _, _, _, _, _)
runToolValidatorsFrom(e, phase, in, env, i, acc) ==
  IF i > Len(e.tools) THEN acc
  ELSE LET tool == e.tools[i] IN
    IF ~toolSupportsOperation(tool, in.ToolName)
      THEN runToolValidatorsFrom(e, phase, in, env, i + 1, acc)
    ELSE IF tool.name \in env.faults
      THEN runToolValidatorsFrom(e, phase, in, env, i + 1, acc)
    ELSE LET result == ValidateTool(tool, phase, acc.modifiedInput, env) IN
      runToolValidatorsFrom(e, phase, in, env, i + 1,
        [acc EXCEPT !.violations = @ \o result.Violations,
                    !.suggestions = @ \o result.Suggestions,
                    !.modifiedInput = IF ~result.ModifiedToolInput.nil
                                        THEN result.ModifiedToolInput ELSE @])

runToolValidators(e, phase, in, env) ==
  runToolValidatorsFrom(e, phase, in, env, 1,
    [modifiedInput |-> in, violations |-> <<>>, suggestions |-> <<>>, err |-> None])

\* determineAction without its warning branch
determineActionNoWarn(violations) ==
  IF \E i \in 1..Len(violations) : violations[i].Severity = LevelCritical THEN HookActionBlock
  ELSE HookActionAllow

determineAction(violations) ==
  IF \E i \in 1..Len(violations) : violations[i].Severity = LevelCritical THEN HookActionBlock
  ELSE IF \E i \in 1..Len(violations) : violations[i].Severity = LevelWarning THEN HookActionWarn
  ELSE HookActionAllow

determineLevel(violations) ==
  IF \E i \in 1..Len(violations) : violations[i].Severity = LevelCritical THEN LevelCritical
  ELSE IF \E i \in 1..Len(violations) : violations[i].Severity = LevelWarning THEN LevelWarning
  ELSE LevelInfo

\* generateMessage that takes the message of the last violation
generateMessageLast(action, violations) ==
  CASE action = HookActionBlock ->
         IF Len(violations) > 0 THEN violations[Len(violations)].Message ELSE "Operation blocked"
    [] action = HookActionWarn ->
         IF Len(violations) > 0 THEN violations[Len(violations)].Message ELSE "Warning"
    [] OTHER -> "Operation allowed"

generateMessage(action, violations) ==
  CASE action = HookActionBlock ->
         IF Len(violations) > 0 THEN violations[1].Message ELSE "Operation blocked"
    [] action = HookActionWarn ->
         IF Len(violations) > 0 THEN violations[1].Message ELSE "Warning"
    [] OTHER -> "Operation allowed"

generatePostProcessMessage(action, violations, toolName) ==
  CASE action = HookActionBlock -> "Post-processing for " \o toolName \o " blocked"
    [] action = HookActionWarn -> "Post-processing for " \o toolName \o " completed with warnings"
    [] OTHER -> "Post-processing for " \o toolName \o " completed"

RECURSIVE dedupFrom(_, _, _)
dedupFrom(suggestions, i, unique) ==
  IF i > Len(suggestions) THEN unique
  ELSE IF \E k \in 1..Len(unique) : unique[k] = suggestions[i]
    THEN dedupFrom(suggestions, i + 1, unique)
    ELSE dedupFrom(suggestions, i + 1, Append(unique, suggestions[i]))

\* deduplicateSuggestions that returns its argument
deduplicateSuggestionsNone(suggestions) == suggestions

deduplicateSuggestions(suggestions) == dedupFrom(suggestions, 1, <<>>)

\* what a Process* call returns: (nil, err) or (response, nil)
ErrorReturn(err) ==
  [err |-> err, Action |-> None, Message |-> None, Suggestions |-> <<>>, Level |-> None,
   Violations |-> <<>>, ModifiedToolInput |-> NilInput]

\* no call has returned yet
NoResponse == ErrorReturn(None)

ProcessPreToolUse(e, in, env) ==
  LET fileAnalysis == IF in.FilePath # "" THEN CreateFileAnalysis(in) ELSE NilFile
      ran == isFileOperation(in.ToolName) /\ ~fileAnalysis.nil
      v == IF ran THEN runValidators(e, fileAnalysis, env)
           ELSE [violations |-> <<>>, suggestions |-> <<>>, err |-> None]
      t == runToolValidators(e, "pre", in, env)
      allViolations == v.violations \o t.violations
      allSuggestions == v.suggestions \o t.suggestions
      action == determineAction(allViolations)
  IN  IF v.err # None THEN ErrorReturn("validators failed")
      ELSE IF t.err # None THEN ErrorReturn("tool validators failed")
      ELSE [err |-> None,
            Action |-> action,
            Message |-> generateMessage(action, allViolations),
            Suggestions |-> deduplicateSuggestions(allSuggestions),
            Level |-> determineLevel(allViolations),
            Violations |-> allViolations,
            ModifiedToolInput |-> IF t.modifiedInput.ref # in.ref THEN t.modifiedInput
                                  ELSE NilInput]

ProcessPostToolUse(e, in, env) ==
  LET t == runToolValidators(e, "post", in, env)
      allViolations == IF t.err # None THEN <<>> ELSE t.violations
      allSuggestions == IF t.err # None THEN <<>> ELSE t.suggestions
      action == determineAction(allViolations)
  IN  [err |-> None,
       Action |-> action,
       Message |-> generatePostProcessMessage(action, allViolations, in.ToolName),
       Suggestions |-> deduplicateSuggestions(allSuggestions),
       Level |-> determineLevel(allViolations),
       Violations |-> allViolations,
       ModifiedToolInput |-> NilInput]

\* ProcessStop that hands a tool checker's error to its caller
ProcessStopPropagating(e, env) ==
  IF \E i \in 1..Len(e.tools) :
       toolSupportsOperation(e.tools[i], "Stop") /\ e.tools[i].name \in env.faults
    THEN ErrorReturn("tool validators failed")
    ELSE [err |-> None, Action |-> HookActionAllow, Message |-> "Stop processing completed",
          Suggestions |-> <<>>, Level |-> LevelInfo, Violations |-> <<>>,
          ModifiedToolInput |-> NilInput]

ProcessStop(e, env) ==
  LET stopInput == ToolInput("Stop", "", "", "", "")
      t == runToolValidators(e, "stop", stopInput, env)
      allViolations == IF t.err # None THEN <<>> ELSE t.violations
      allSuggestions == IF t.err # None THEN <<>> ELSE t.suggestions
  IN  [err |-> None,
       Action |-> HookActionAllow,
       Message |-> "Stop processing completed",
       Suggestions |-> deduplicateSuggestions(allSuggestions),
       Level |-> LevelInfo,
       Violations |-> allViolations,
       ModifiedToolInput |-> NilInput]

(***************************************************************************)
(* package core: configuration and the parsed hook event.                  *)
(***************************************************************************)
\* a ValidatorConfig with the given enable flag and Go zero values elsewhere
ValidatorConfig(enabled) ==
  [Enabled |-> enabled, ExceptionPaths |-> <<>>, GoFilesOnly |-> FALSE,
   TestExceptions |-> <<>>, TestConfigExceptions |-> <<>>]

ToolConfig(enabled) ==
  [Enabled |-> enabled, DangerousCommands |-> <<>>, BlockedPatterns |-> <<>>,
   GoFormat |-> FALSE, TSFormat |-> FALSE]

DefaultConfig ==
  [Validators |->
     [n \in {"emergency_defaults", "runtime_exit", "secrets"} |->
        CASE n = "emergency_defaults" ->
               [ValidatorConfig(TRUE) EXCEPT !.ExceptionPaths = <<"docs/", "README">>]
          [] n = "runtime_exit" ->
               [ValidatorConfig(TRUE) EXCEPT !.GoFilesOnly = TRUE,
                                             !.TestExceptions = <<"*_test.go", "tests/", "test/">>]
          [] n = "secrets" ->
               [ValidatorConfig(TRUE) EXCEPT
                  !.TestConfigExceptions = <<"test-config.ts", "test-config.js", "*test*.json">>]],
   Tools |->
     [n \in {"bash", "formatter", "notifier"} |->
        CASE n = "bash" ->
               [ToolConfig(TRUE) EXCEPT
                  !.BlockedPatterns = <<"--headed", "rm -rf /", "rm -rf ~", ":(){ :|:& };:">>]
          [] n = "formatter" -> [ToolConfig(TRUE) EXCEPT !.GoFormat = TRUE, !.TSFormat = TRUE]
          [] n = "notifier" -> ToolConfig(TRUE)]]

\* strings.Join
RECURSIVE JoinStrings(_, _)
JoinStrings(elems, sep) ==
  IF Len(elems) = 0 THEN ""
  ELSE IF Len(elems) = 1 THEN elems[1]
  ELSE elems[1] \o sep \o JoinStrings(Tail(elems), sep)

\* extractToolSpecificData: the flat event fields taken from the tool_input blob
extractToolSpecificData(toolName, toolData) ==
  CASE toolName = "Write" -> ToolInput(toolName, toolData.file_path, toolData.content, "", "")
    [] toolName = "Edit" -> ToolInput(toolName, toolData.file_path, "", toolData.new_string, "")
    [] toolName = "MultiEdit" ->
         ToolInput(toolName, toolData.file_path, "", JoinStrings(toolData.edits, " "), "")
    [] toolName = "Bash" -> ToolInput(toolName, "", "", "", toolData.command)
    [] OTHER -> ToolInput(toolName, "", "", "", "")

\* ParseToolInput: json.Unmarshal fills the flat fields from the top level of
\* the event, then extractToolSpecificData overwrites those the tool_input
\* blob carries for the tool
ParseToolInput(toolName, toolData, top) ==
  LET own == extractToolSpecificData(toolName, toolData)
  IN  [own EXCEPT !.FilePath  = IF @ # "" THEN @ ELSE top.file_path,
                  !.Content   = IF @ # "" THEN @ ELSE top.content,
                  !.NewString = IF @ # "" THEN @ ELSE top.new_string,
                  !.Command   = IF @ # "" THEN @ ELSE top.command]

(***************************************************************************)
(* The hook process as a state machine.                                    *)
(*   config, engine : the configuration loaded at start and the Engine     *)
(*                    New built from it                                     *)
(*   served         : the Engine has served a call for an earlier event   *)
(*   input          : the event read from standard input                   *)
(*   phase, env     : the last call made for the event and its environment *)
(*   response       : what a Process* call returned                        *)
(*   checker,result : a validator constructed on its own, as the unit      *)
(*                    tests do, and what its direct Validate call returned *)
(***************************************************************************)
VARIABLES config, engine, served, input, phase, env, response, checker, result

vars == <<config, engine, served, input, phase, env, response, checker, result>>

\* no validator under direct test
NoChecker == NewBaseValidator(None, ValidatorConfig(FALSE))

\* hook: the "hook_phase" value of the context a caller hands to a checker it
\* calls itself ("" for context.Background()); cancelled: the context of the
\* call is cancelled already when the call is made (taken in calls in which
\* no checker fails); rewrites: what the rewriting tool checkers return;
\* tasks: the commands the notifier's goroutines run, each "running", "ok"
\* (cmd.Run returned nil) or "failed"
NoEnv ==
  [faults |-> {}, format |-> "missing", project |-> "unknown", hook |-> "", cancelled |-> FALSE,
   rewrites |-> <<>>, tasks |-> [t \in {} |-> "running"]]

\* the checkers an engine holds, and the sets of them that fail in one call
CheckerNames(e) ==
  {e.validators[i].name : i \in 1..Len(e.validators)} \cup {e.tools[i].name : i \in 1..Len(e.tools)}

FaultSets(e) == {f \in SUBSET CheckerNames(e) : Cardinality(f) <= MaxFaults}

\* configurations of the engine runs: the default one, the unit tests' one
\* (checkers just enabled, the notifier off) and the empty one
TestConfig ==
  [Validators |-> [n \in {"emergency_defaults", "runtime_exit", "secrets"} |-> ValidatorConfig(TRUE)],
   Tools |-> [n \in {"bash", "formatter", "notifier"} |->
                IF n = "bash" THEN [ToolConfig(TRUE) EXCEPT !.DangerousCommands = <<"rm -rf /">>]
                ELSE IF n = "formatter" THEN [ToolConfig(TRUE) EXCEPT !.GoFormat = TRUE]
                ELSE ToolConfig(FALSE)]]

EmptyConfig ==
  [Validators |-> [n \in {"secrets"} |-> ValidatorConfig(FALSE)],
   Tools |-> [n \in {"notifier"} |-> ToolConfig(FALSE)]]

EngineConfigs == {DefaultConfig, TestConfig, EmptyConfig}

EnginePaths == {"", "service.go", "cmd/app/main.go", "app.ts"}

EngineContents ==
  {"x := 1", "panic(\"boom\")", "x := getFallbackValue()\nos.Exit(1)",
   "w := \"0x1234567890abcdef1234567890abcdef12345678\""}

EngineCommands == {"", "rm -rf /", "rm -rf ./build", "ls --headed; rm -rf ~"}

\* the tool_input blob: the fields a tool's parameters carry, "" when absent
ToolData(filePath, content, newString, command) ==
  [file_path |-> filePath, content |-> content, new_string |-> newString, command |-> command,
   edits |-> <<>>]

\* the tool_input blob of a MultiEdit: the new_string of each of its edits
MultiEditData(filePath, edits) == [ToolData(filePath, "", "", "") EXCEPT !.edits = edits]

\* an event that carries none of the flat fields at its top level
NoTop == ToolData("", "", "", "")

\* the hook events of the engine runs: <<tool_name, tool_input, top-level fields>>
EngineEvents ==
  {<<"Write", ToolData(p, c, "", ""), NoTop>> : p \in EnginePaths, c \in EngineContents}
  \cup {<<"Edit", ToolData(p, "", c, ""), NoTop>> : p \in EnginePaths, c \in EngineContents}
  \cup {<<"Bash", ToolData("", "", "", k), NoTop>> : k \in EngineCommands}
  \cup {<<"Read", ToolData(p, "", "", ""), NoTop>> : p \in EnginePaths}

\* the validators and the bash and notifier tools as DefaultConfig sets
\* them, for the runs on events of every kind
FWConfigs ==
  {[Validators |-> DefaultConfig.Validators,
    Tools |-> [n \in {"bash", "notifier"} |-> DefaultConfig.Tools[n]]]}

FWPaths == {"", "service.go"}

FWContents == {"x := 1", "panic(\"boom\")", "x := getFallbackValue()\nos.Exit(1)"}

\* the new_string values of the edits of the MultiEdit events
FWEdits == {<<"x := 1">>, <<"x := 1", "panic(\"boom\")">>}

\* events of every kind: writes and edits with and without a file path,
\* MultiEdit events, and Read and Bash events that carry file_path and
\* content at their top level
FWEvents ==
  {<<"Write", ToolData(p, c, "", ""), NoTop>> : p \in FWPaths, c \in FWContents}
  \cup {<<"Edit", ToolData(p, "", c, ""), NoTop>> : p \in FWPaths, c \in FWContents}
  \cup {<<"MultiEdit", MultiEditData(p, e), NoTop>> : p \in FWPaths, e \in FWEdits}
  \cup {<<"Bash", ToolData("", "", "", k), NoTop>> : k \in EngineCommands}
  \cup {<<"Read", ToolData("service.go", "", "", ""), top>> :
           top \in {NoTop, ToolData("service.go", "panic(\"boom\")", "", "")}}
  \cup {<<"Bash", ToolData("", "", "", "rm -rf /"),
          ToolData("service.go", "panic(\"boom\")", "", "")>>}

\* the events the process reads in a run
HookEvents == IF config \in FWConfigs THEN FWEvents ELSE EngineEvents

Init ==
  /\ config \in EngineConfigs
  /\ engine = New(config)
  /\ served = FALSE
  /\ input = ToolInput("Read", "", "", "", "")
  /\ phase = "idle"
  /\ env = NoEnv
  /\ response = NoResponse
  /\ checker = NoChecker
  /\ result = ValidEmpty

\* ParseToolInput: the next hook event arrives.  One event gets one call (the
\* CLI runs one phase per event); the Engine lives on across events.
ReadEvent ==
  /\ \E event \in HookEvents : input' = ParseToolInput(event[1], event[2], event[3])
  /\ phase' = "idle"
  /\ env' = NoEnv
  /\ response' = NoResponse
  /\ served' = (served \/ phase \in {"pre", "post", "stop"})
  /\ UNCHANGED <<config, engine, checker, result>>

\* PreToolUse on an Engine that initialises its validators again in each call
PreToolUseReinit ==
  /\ phase = "idle"
  /\ \E faults \in FaultSets(engine), cancelled \in BOOLEAN :
        /\ cancelled => faults = {}
        /\ env' = [NoEnv EXCEPT !.faults = faults, !.cancelled = cancelled]
        /\ response' = ProcessPreToolUse(engine, input, env')
  /\ phase' = "pre"
  /\ engine' = [engine EXCEPT !.validators = @ \o initValidators(config)]
  /\ UNCHANGED <<config, served, input, checker, result>>

PreToolUse ==
  /\ phase = "idle"
  /\ \E faults \in FaultSets(engine), cancelled \in BOOLEAN :
        /\ cancelled => faults = {}
        /\ env' = [NoEnv EXCEPT !.faults = faults, !.cancelled = cancelled]
        /\ response' = ProcessPreToolUse(engine, input, env')
  /\ phase' = "pre"
  /\ engine' = engine
  /\ UNCHANGED <<config, served, input, checker, result>>

PostToolUse ==
  /\ phase = "idle"
  /\ \E faults \in FaultSets(engine), format \in {"missing", "ok", "fail"}, cancelled \in BOOLEAN :
        /\ cancelled => faults = {}
        /\ env' = [NoEnv EXCEPT !.faults = faults, !.format = format, !.cancelled = cancelled]
        /\ response' = ProcessPostToolUse(engine, input, env')
  /\ phase' = "post"
  /\ engine' = engine
  /\ UNCHANGED <<config, served, input, checker, result>>

Stop ==
  /\ phase = "idle"
  /\ \E faults \in FaultSets(engine), project \in {"unknown", "hooks"}, cancelled \in BOOLEAN :
        /\ cancelled => faults = {}
        /\ env' = [NoEnv EXCEPT !.faults = faults, !.project = project, !.cancelled = cancelled]
        /\ response' = ProcessStop(engine, env')
  /\ phase' = "stop"
  /\ engine' = engine
  /\ UNCHANGED <<config, served, input, checker, result>>

Next == ReadEvent \/ PreToolUse \/ PostToolUse \/ Stop

Spec == Init /\ [][Next]_vars

InitFW ==
  /\ config \in FWConfigs
  /\ engine = New(config)
  /\ served = FALSE
  /\ input = ToolInput("Read", "", "", "", "")
  /\ phase = "idle"
  /\ env = NoEnv
  /\ response = NoResponse
  /\ checker = NoChecker
  /\ result = ValidEmpty

NextFW == ReadEvent \/ PreToolUse

SpecFW == InitFW /\ [][NextFW]_vars

(***************************************************************************)
(* The engine's contract.                                                  *)
(***************************************************************************)
HasSeverity(violations, severity) ==
  \E i \in 1..Len(violations) : violations[i].Severity = severity

\* the violations of severity critical in a list, as a set
CriticalOf(violations) ==
  {violations[i] : i \in {k \in 1..Len(violations) : violations[k].Severity = LevelCritical}}

ElementsOf(seq) == {seq[i] : i \in 1..Len(seq)}

\* C1: every Decision ProcessPreToolUse or ProcessPostToolUse returns has
\* action block iff one of its violations is critical, else warn iff one of
\* them is a warning, else allow.
C1_ActionBySeverity ==
  (phase \in {"pre", "post"} /\ response.err = None) =>
    /\ (response.Action = HookActionBlock) <=> HasSeverity(response.Violations, LevelCritical)
    /\ (response.Action = HookActionWarn) <=>
          (~HasSeverity(response.Violations, LevelCritical)
             /\ HasSeverity(response.Violations, LevelWarning))
    /\ (response.Action = HookActionAllow) <=>
          (~HasSeverity(response.Violations, LevelCritical)
             /\ ~HasSeverity(response.Violations, LevelWarning))

\* a post-action Decision that warns: a failed format, nothing critical
C1_Witness ==
  /\ phase = "post"
  /\ response.Action = HookActionWarn
  /\ HasSeverity(response.Violations, LevelWarning)
  /\ ~HasSeverity(response.Violations, LevelCritical)

\* C2: in a pre-action call every critical violation that an enabled
\* validator (called for a file operation with a file path) or an applicable
\* tool checker returns without error is in the Decision's violation list,
\* and the Decision then blocks.
C2_NoCriticalSwallowed ==
  (phase = "pre" /\ response.err = None) =>
    LET file == CreateFileAnalysis(input)
        fromValidators ==
          IF isFileOperation(input.ToolName) /\ ~file.nil
            THEN UNION {CriticalOf(Validate(engine.validators[i], file).Violations) :
                          i \in {k \in 1..Len(engine.validators) :
                                   engine.validators[k].name \notin env.faults}}
            ELSE {}
        fromTools ==
          UNION {CriticalOf(ValidateTool(engine.tools[i], "pre", input, env).Violations) :
                   i \in {k \in 1..Len(engine.tools) :
                            /\ toolSupportsOperation(engine.tools[k], input.ToolName)
                            /\ engine.tools[k].name \notin env.faults}}
        returned == fromValidators \cup fromTools
    IN  /\ returned \subseteq ElementsOf(response.Violations)
        /\ returned # {} => response.Action = HookActionBlock

\* a pre-action call in which two validators each return a critical violation
C2_Witness ==
  /\ phase = "pre"
  /\ response.Action = HookActionBlock
  /\ \E i, j \in 1..Len(response.Violations) :
        /\ response.Violations[i].Type = "critical_default"
        /\ response.Violations[j].Type = "critical_exit"

\* C3: ProcessStop returns a Decision with action allow and no error,
\* whatever the stop-phase tool checkers return or fail with; it takes no
\* event.
C3_StopAlwaysAllows ==
  phase = "stop" => (response.err = None /\ response.Action = HookActionAllow)

\* a session end whose notifier failed, and one whose notifier reported
C3_Witness ==
  /\ phase = "stop"
  /\ response.Action = HookActionAllow
  /\ \/ "notifier" \in env.faults /\ "notifier" \in CheckerNames(engine)
     \/ Len(response.Violations) > 0

\* C4: the calls are stateless: no call changes the engine's configuration
\* and checker lists, and what a call returns is what a newly built Engine of
\* the same configuration returns for the same event and environment,
\* whatever was processed before.
C4_Stateless ==
  /\ engine = New(config)
  /\ engine.config = config
  /\ phase = "pre" => response = ProcessPreToolUse(New(config), input, env)
  /\ phase = "post" => response = ProcessPostToolUse(New(config), input, env)
  /\ phase = "stop" => response = ProcessStop(New(config), env)

\* a blocking pre-action Decision of an Engine that served an earlier event
C4_Witness ==
  /\ served
  /\ phase = "pre"
  /\ response.Action = HookActionBlock

(***************************************************************************)
(* A validator on its own: the file an event writes is built line by line  *)
(* from the lines of the validator's cases, then the validator's Validate  *)
(* is called on its snapshot, or the engine's pre-action entry point.      *)
(***************************************************************************)
RELines ==
  {"x := 1", "panic(err)", "log.Fatal(e); log.Fatalf (\"x\")", "log.Fatalln(e); os.Exit(1)"}

REPaths ==
  {"service.go", "main.go", "cmd/tool.go", "/app/cmd/app/main.go", "service.py",
   "pkg/service_test.go", "latest/run.go"}

\* runtime_exit alone: as DefaultConfig sets it, and as the unit tests do,
\* without and with exception paths
REConfigs ==
  {[Validators |-> [n \in {"runtime_exit"} |-> vc], Tools |-> [n \in {"notifier"} |-> ToolConfig(FALSE)]] :
     vc \in {DefaultConfig.Validators["runtime_exit"],
             ValidatorConfig(TRUE),
             [ValidatorConfig(TRUE) EXCEPT !.ExceptionPaths = <<"cmd/", "main.go">>]}}

EDLines ==
  {"x := 1",
   "return fallback",
   "x = Fallback",
   "v := getFallbackValue()",
   "\t// fallback to the old value",
   "func DefaultFallback() {",
   "value := x || \"default\"",
   "const value = x ?? \"default\"",
   "v := x || computeDefault()",
   "v := a || b || \"d\"",
   "n := x ||5",
   "default: return fallback",
   "Default: return fallback"}

EDPaths == {"test.go", "app.ts", "notes.txt"}

EDConfigs ==
  {[Validators |-> [n \in {"emergency_defaults"} |-> ValidatorConfig(TRUE)],
    Tools |-> [n \in {"notifier"} |-> ToolConfig(FALSE)]]}

\* emergency_defaults as DefaultConfig sets it, on lines that are blank,
\* indented, or match several of its rules
LRConfigs ==
  {[Validators |-> [n \in {"emergency_defaults"} |-> DefaultConfig.Validators[n]],
    Tools |-> [n \in {"notifier"} |-> ToolConfig(FALSE)]]}

LRLines ==
  {"x := 1",
   "",
   "\treturn fallback",
   "x = fallback || \"d\"",
   "a || \"b\" ?? \"c\" ${D:-e}",
   "c ?? \"d\" ${E:-f}",
   "echo ${N:-g}"}

\* runtime_exit for Go files only, on lines with a recovery construct or
\* an entrypoint function
RSConfigs ==
  {[Validators |-> [n \in {"runtime_exit"} |-> [ValidatorConfig(TRUE) EXCEPT !.GoFilesOnly = TRUE]],
    Tools |-> [n \in {"notifier"} |-> ToolConfig(FALSE)]]}

RSLines ==
  {"x := 1", "panic(err)", "defer func() { recover() }()", "func main() {", "os.Exit(1)"}

\* the two validators that call the pattern matcher, on lines with no,
\* one and several occurrences of their patterns
PMConfigs ==
  {[Validators |-> [n \in {"runtime_exit", "secrets"} |-> ValidatorConfig(TRUE)],
    Tools |-> [n \in {"notifier"} |-> ToolConfig(FALSE)]]}

PMLines ==
  {"", "x := 1", "panic(a); panic (b)", "os.Exit(1); panic(e)", "t := \"eyJabeyJcd\"",
   "  log.Fatalf(\"eyJx\")"}

\* the three validators as DefaultConfig sets them, on paths that hold the
\* text of an exception entry, or that an entry read as a glob would match
GEConfigs ==
  {[Validators |-> DefaultConfig.Validators,
    Tools |-> [n \in {"notifier"} |-> ToolConfig(FALSE)]]}

GEPaths ==
  {"src/app.go", "cfg/mytest1.json", "cfg/*test*.json", "contest/run.go", "mydocs/gen.go",
   "t/*_test.go/y.go"}

GELines ==
  {"x := 1", "panic(err)", "return fallback",
   "w := \"0x1234567890abcdef1234567890abcdef12345678\""}

FileLines ==
  IF config \in GEConfigs THEN GELines
  ELSE IF config \in PMConfigs THEN PMLines
  ELSE IF config \in RSConfigs THEN RSLines
  ELSE IF checker.name = "runtime_exit" THEN RELines
  ELSE IF config \in LRConfigs THEN LRLines
  ELSE EDLines

FilePaths ==
  IF config \in GEConfigs THEN GEPaths
  ELSE IF checker.name = "runtime_exit" THEN REPaths
  ELSE EDPaths

\* number of lines of a content
LineCount(content) == Cardinality({i \in 1..Len(content) : At(content, i) = "\n"}) + 1

InitFile(configs, name) ==
  /\ config \in configs
  /\ engine = New(config)
  /\ served = FALSE
  /\ input = ToolInput("Read", "", "", "", "")
  /\ phase = "idle"
  /\ env = NoEnv
  /\ response = NoResponse
  /\ checker = (CASE name = "runtime_exit" -> NewRuntimeExitValidator(config.Validators[name])
                  [] name = "emergency_defaults" -> NewEmergencyDefaultsValidator(config.Validators[name]))
  /\ result = ValidEmpty

InitRE == InitFile(REConfigs, "runtime_exit")

InitED == InitFile(EDConfigs, "emergency_defaults")

InitLR == InitFile(LRConfigs, "emergency_defaults")

\* a Write event for a new file of one line
NewFile ==
  /\ \E path \in FilePaths, line \in FileLines :
        input' = extractToolSpecificData("Write", ToolData(path, line, "", ""))
  /\ phase' = "idle"
  /\ env' = NoEnv
  /\ response' = NoResponse
  /\ result' = ValidEmpty
  /\ served' = (served \/ phase \in {"pre", "post", "stop"})
  /\ UNCHANGED <<config, engine, checker>>

\* the event's content gets one more line
AddLine ==
  /\ phase = "idle"
  /\ input.ToolName = "Write"
  /\ LineCount(input.Content) < MaxLines
  /\ \E line \in FileLines : input' = [input EXCEPT !.Content = @ \o "\n" \o line]
  /\ UNCHANGED <<config, engine, served, phase, env, response, checker, result>>

\* validator.Validate(ctx, file) on the snapshot of the event's file
ValidateFile ==
  /\ phase = "idle"
  /\ checker.name \in {"emergency_defaults", "runtime_exit", "secrets"}
  /\ input.FilePath # ""
  /\ result' = Validate(checker, CreateFileAnalysis(input))
  /\ phase' = "validate"
  /\ UNCHANGED <<config, engine, served, input, env, response, checker>>

NextRE == NewFile \/ AddLine \/ ValidateFile \/ PreToolUse

SpecRE == InitRE /\ [][NextRE]_vars

NextED == NewFile \/ AddLine \/ ValidateFile

SpecED == InitED /\ [][NextED]_vars

InitRS == InitFile(RSConfigs, "runtime_exit")

NextRS == NewFile \/ AddLine \/ ValidateFile

SpecRS == InitRS /\ [][NextRS]_vars

\* the pattern list a validator hands to the pattern matcher: v.patterns of
\* the termination checker, the one-pattern list of checkJWTTokens
PatternsOf(v) == IF v.name = "runtime_exit" THEN exitPatterns ELSE <<jwtPattern>>

InitPM ==
  /\ config \in PMConfigs
  /\ engine = New(config)
  /\ served = FALSE
  /\ input = ToolInput("Read", "", "", "", "")
  /\ phase = "idle"
  /\ env = NoEnv
  /\ response = NoResponse
  /\ checker \in {NewRuntimeExitValidator(config.Validators["runtime_exit"]),
                   NewSecretsValidator(config.Validators["secrets"])}
  /\ result = ValidEmpty

\* v.FindPatternMatches(file.Content, patterns): result is the slice returned
FindMatches ==
  /\ phase = "idle"
  /\ input.ToolName = "Write"
  /\ result' = FindPatternMatches(input.Content, PatternsOf(checker))
  /\ phase' = "matched"
  /\ UNCHANGED <<config, engine, served, input, env, response, checker>>

NextPM == NewFile \/ AddLine \/ FindMatches

SpecPM == InitPM /\ [][NextPM]_vars

InitGE ==
  /\ config \in GEConfigs
  /\ engine = New(config)
  /\ served = FALSE
  /\ input = ToolInput("Read", "", "", "", "")
  /\ phase = "idle"
  /\ env = NoEnv
  /\ response = NoResponse
  /\ checker \in {NewEmergencyDefaultsValidator(config.Validators["emergency_defaults"]),
                   NewRuntimeExitValidator(config.Validators["runtime_exit"]),
                   NewSecretsValidator(config.Validators["secrets"])}
  /\ result = ValidEmpty

NextGE == NewFile \/ AddLine \/ ValidateFile

SpecGE == InitGE /\ [][NextGE]_vars

NextLR == NewFile \/ AddLine \/ ValidateFile

SpecLR == InitLR /\ [][NextLR]_vars

(***************************************************************************)
(* What the checked file holds, read off the content position by position. *)
(***************************************************************************)
Newlines(content) == {i \in 1..Len(content) : At(content, i) = "\n"}

\* line number and column of position p
LineOf(content, p) == 1 + Cardinality({i \in Newlines(content) : i < p})

ColumnOf(content, p) ==
  LET before == {i \in Newlines(content) : i < p}
  IN  IF before = {} THEN p ELSE p - (CHOOSE i \in before : \A j \in before : j <= i)

\* the text of line n
LineAt(content, n) ==
  LET breaks == Newlines(content)
      \* the k-th line break
      break(k) == CHOOSE i \in breaks : Cardinality({j \in breaks : j < i}) = k - 1
      first == IF n = 1 THEN 1 ELSE break(n - 1) + 1
      last == IF n > Cardinality(breaks) THEN Len(content) ELSE break(n) - 1
  IN  SubSeq(content, first, last)

\* the violations of a result at line n
AtLine(violations, n) == {i \in 1..Len(violations) : violations[i].Line = n}

(***************************************************************************)
(* runtime_exit                                                            *)
(***************************************************************************)
\* the termination calls and the sub-type of each family
ExitCalls ==
  {[name |-> "panic", type |-> "runtime_exit_usage"],
   [name |-> "log.Fatal", type |-> "log_fatal_usage"],
   [name |-> "log.Fatalf", type |-> "log_fatal_usage"],
   [name |-> "log.Fatalln", type |-> "log_fatal_usage"],
   [name |-> "os.Exit", type |-> "critical_exit"]}

\* name, blanks, an opening parenthesis, at position p
CallAt(content, p, name) ==
  /\ OccursAt(content, name, p)
  /\ \E q \in (p + Len(name))..Len(content) :
        /\ At(content, q) = "("
        /\ \A r \in (p + Len(name))..(q - 1) : At(content, r) \in {" ", "\t"}

ExitCallOccurrences(content) ==
  {[Line |-> LineOf(content, p), Column |-> ColumnOf(content, p), Type |-> call.type] :
     <<p, call>> \in {pc \in (1..Len(content)) \X ExitCalls : CallAt(content, pc[1], pc[2].name)}}

\* not a test file, documentation file or entrypoint/example/benchmark exception
NotExemptFromExit(path) ==
  /\ ~IsTestFile(path)
  /\ ~IsDocumentationFile(path)
  /\ ~ContainsAny(path, <<"/cmd/", "/main.go", "/examples/", "/demo/", "/benchmark/", "_bench.go">>)

\* every occurrence has its one critical violation of its sub-type, the
\* result is invalid, the pre-action Decision blocks
ExitCallsReported ==
  LET occurrences == ExitCallOccurrences(input.Content)
      reported(violations) ==
        /\ Len(violations) = Cardinality(occurrences)
        /\ \A o \in occurrences :
             \E i \in 1..Len(violations) :
               /\ violations[i].Line = o.Line /\ violations[i].Column = o.Column
               /\ violations[i].Type = o.Type
               /\ violations[i].Severity = LevelCritical
               /\ \A j \in 1..Len(violations) :
                    (violations[j].Line = o.Line /\ violations[j].Column = o.Column) => j = i
  IN  /\ phase = "validate" =>
           /\ reported(result.Violations)
           /\ occurrences # {} => ~result.IsValid
      /\ (phase = "pre" /\ "runtime_exit" \notin env.faults) =>
           /\ reported(response.Violations)
           /\ occurrences # {} => response.Action = HookActionBlock

\* the claim's case: runtime_exit enabled, no exception paths, a file that is
\* no test file, documentation file or entrypoint exception
ExitCovered ==
  /\ checker.name = "runtime_exit"
  /\ checker.enabled
  /\ checker.exceptions = <<>>
  /\ input.FilePath # ""
  /\ NotExemptFromExit(input.FilePath)

\* the checker is not kept from the file by its Go-files-only switch or by
\* one of its configured test-exception substrings
ExitNotSkipped ==
  /\ checker.goFilesOnly => HasSuffix(input.FilePath, ".go")
  /\ ~ContainsAny(input.FilePath, checker.testExceptions)

\* C5 (as stated): with runtime_exit enabled and no exception paths, every
\* occurrence of an exit, fatal-log or panic call in a file that is no test
\* file, documentation file or entrypoint exception yields exactly one
\* critical violation of its sub-type, an invalid result and a blocking
\* pre-action Decision.
C5_Original == ExitCovered => ExitCallsReported

\* C5 (amended): the same, for the files the checker is not kept from by its
\* Go-files-only switch or a configured test-exception substring.
C5_ExitCallsBlocked == (ExitCovered /\ ExitNotSkipped) => ExitCallsReported

\* a validated production file with calls of two families
C5_Witness ==
  /\ phase = "validate"
  /\ ExitCovered /\ ExitNotSkipped
  /\ ~result.IsValid
  /\ \E o1, o2 \in ExitCallOccurrences(input.Content) :
        o1.Type = "runtime_exit_usage" /\ o2.Type = "critical_exit"

\* under a cmd/ directory, or named main.go
UnderCmdOrNamedMain(path) ==
  \/ HasPrefix(path, "cmd/") \/ Contains(path, "/cmd/")
  \/ path = "main.go" \/ HasSuffix(path, "/main.go")

\* C6: runtime_exit never blocks a file under a cmd/ directory or named
\* main.go, whether the path is relative or absolute and whatever the
\* content: Validate returns a valid result without violations, also when no
\* exception paths are configured.
C6_EntrypointsNeverBlocked ==
  (phase = "validate" /\ checker.name = "runtime_exit" /\ UnderCmdOrNamedMain(input.FilePath)) =>
    (result.IsValid /\ result.Violations = <<>>)

(***************************************************************************)
(* emergency_defaults                                                      *)
(***************************************************************************)
Keyword == "fallback"

WordChars == LowerChars \o UpperChars \o DigitChars \o "_"

\* the keyword at position p, in any letter case
KeywordAt(line, p) ==
  /\ p + Len(Keyword) - 1 <= Len(line)
  /\ LowerChar(At(line, p)) = At(Keyword, 1)
  /\ EqualFold(SubSeq(line, p, p + Len(Keyword) - 1), Keyword)

KeywordIn(line) == \E p \in 1..Len(line) : KeywordAt(line, p)

\* ... as a whole word: no word character on either side
WholeKeywordIn(line) ==
  \E p \in 1..Len(line) :
    /\ KeywordAt(line, p)
    /\ p = 1 \/ ~InClass(At(line, p - 1), WordChars)
    /\ p + Len(Keyword) > Len(line) \/ ~InClass(At(line, p + Len(Keyword)), WordChars)

\* a validated file the checker looks into: supported type, not exempt
DefaultsCovered ==
  /\ phase = "validate"
  /\ checker.name = "emergency_defaults"
  /\ checker.enabled
  /\ IsSupportedFileType(input.FilePath, EDSupportedExtensions)
  /\ ~EDIsExceptionFile(checker, input.FilePath)

\* a line the checker scans: not a comment, not a recognized construct
Scanned(line) == ~isComment(TrimSpace(line)) /\ ~isNormalGoConstruct(TrimSpace(line))

\* C7: in a supported, non-exempt file, a line that is no comment and no
\* recognized construct and holds the keyword as a whole word, in any letter
\* case, has exactly one violation, a critical one, at its line number; a
\* line that starts with // and holds the keyword has none.
C7_WholeWordOneViolation ==
  DefaultsCovered =>
    \A n \in 1..LineCount(input.Content) :
      LET line == LineAt(input.Content, n)
          at == AtLine(result.Violations, n)
      IN  /\ (WholeKeywordIn(line) /\ Scanned(line)) =>
                /\ Cardinality(at) = 1
                /\ \A i \in at : result.Violations[i].Severity = LevelCritical
          /\ (HasPrefix(TrimSpace(line), "//") /\ KeywordIn(line)) => at = {}

\* a file with the whole word on a code line and the word in a // comment
C7_Witness ==
  /\ DefaultsCovered
  /\ \E n, m \in 1..LineCount(input.Content) :
        /\ WholeKeywordIn(LineAt(input.Content, n)) /\ Scanned(LineAt(input.Content, n))
        /\ Cardinality(AtLine(result.Violations, n)) = 1
        /\ HasPrefix(TrimSpace(LineAt(input.Content, m)), "//") /\ KeywordIn(LineAt(input.Content, m))
        /\ AtLine(result.Violations, m) = {}

\* C8: the keyword blocks also as part of a larger identifier and in any
\* letter case: a line that is no comment and no recognized construct and
\* contains it as a substring, compared case-insensitively, makes the result
\* of a supported, non-exempt file invalid.
C8_SubstringAnyCaseBlocks ==
  DefaultsCovered =>
    ((\E n \in 1..LineCount(input.Content) :
        KeywordIn(LineAt(input.Content, n)) /\ Scanned(LineAt(input.Content, n)))
       => ~result.IsValid)

\* a file whose only keyword is inside an identifier, with a capital letter
C8_Witness ==
  /\ DefaultsCovered
  /\ ~result.IsValid
  /\ \E n \in 1..LineCount(input.Content) :
        KeywordIn(LineAt(input.Content, n)) /\ Scanned(LineAt(input.Content, n))
  /\ \A n \in 1..LineCount(input.Content) :
        /\ ~WholeKeywordIn(LineAt(input.Content, n))
        /\ ~Contains(LineAt(input.Content, n), Keyword)

\* || at position p, followed after blanks by a quote, a backquote or a digit
OrLiteralAt(line, p) ==
  /\ OccursAt(line, "||", p)
  /\ \E q \in (p + 2)..Len(line) :
        /\ At(line, q) \in {"\"", "'", Backquote} \/ InClass(At(line, q), DigitChars)
        /\ \A r \in (p + 2)..(q - 1) : At(line, r) \in {" ", "\t"}

\* C9: a line that is no comment, no recognized construct and without the
\* keyword has one critical violation if some occurrence of || on it,
\* whichever it is, is followed by a string literal or a digit, and no
\* violation of this rule if every || on it is followed by something else.
C9_OrLiteralAnyOccurrence ==
  DefaultsCovered =>
    \A n \in 1..LineCount(input.Content) :
      LET line == LineAt(input.Content, n)
          at == AtLine(result.Violations, n)
      IN  (Scanned(line) /\ ~KeywordIn(line) /\ Contains(line, "||")) =>
            IF \E p \in 1..Len(line) : OrLiteralAt(line, p)
              THEN /\ Cardinality(at) = 1
                   /\ \A i \in at : result.Violations[i].Severity = LevelCritical
              ELSE \A i \in at : result.Violations[i].Message # "|| default pattern"

\* C10: emergency_defaults does not block the || and ?? default patterns:
\* for a supported, non-exempt file whose lines are value := x || "default"
\* or const value = x ?? "default", Validate returns a valid result without
\* a critical violation.
C10_DefaultPatternsNotBlocked ==
  (DefaultsCovered
     /\ \A n \in 1..LineCount(input.Content) :
          LineAt(input.Content, n) \in {"value := x || \"default\"", "const value = x ?? \"default\""})
    => (result.IsValid /\ ~HasSeverity(result.Violations, LevelCritical))

\* the default branch marker on a line, in any capitalisation
BranchMarkerIn(line) == Contains(ToLower(line), "default:")

\* C11 (as stated): in a supported, non-exempt file a line that holds a
\* default branch marker, default: in any capitalisation, has no violation,
\* whatever else is on the line.
C11_Original ==
  DefaultsCovered =>
    \A n \in 1..LineCount(input.Content) :
      BranchMarkerIn(LineAt(input.Content, n)) => AtLine(result.Violations, n) = {}

\* C11: in a supported, non-exempt file a line that holds the default branch
\* marker as the languages write it, default: in lower case, has no
\* violation, whatever else is on the line and whatever the letter case of
\* the keyword on it.
C11_BranchMarkerNeverTriggers ==
  DefaultsCovered =>
    \A n \in 1..LineCount(input.Content) :
      Contains(LineAt(input.Content, n), "default:") => AtLine(result.Violations, n) = {}

\* a default branch line with the keyword on it, next to a line that blocks
C11_Witness ==
  /\ DefaultsCovered
  /\ ~result.IsValid
  /\ \E n \in 1..LineCount(input.Content) :
        /\ Contains(LineAt(input.Content, n), "default:")
        /\ KeywordIn(LineAt(input.Content, n))
        /\ AtLine(result.Violations, n) = {}

(***************************************************************************)
(* Each checker on its own, enabled and disabled: one of the six checkers  *)
(* is constructed from its entry of a configuration and called directly on *)
(* an event, as the unit tests call it.                                    *)
(***************************************************************************)
ValidatorNames == {"emergency_defaults", "runtime_exit", "secrets"}

ToolNames == {"bash", "formatter", "notifier"}

\* the validators with the exception paths of their unit tests, the bash
\* tool with the blocked patterns of its unit test
ExceptionsConfig ==
  [Validators |-> [n \in ValidatorNames |->
                     [ValidatorConfig(TRUE) EXCEPT !.ExceptionPaths = <<"docs/", "test/">>]],
   Tools |-> [n \in ToolNames |->
                IF n = "bash"
                  THEN [ToolConfig(TRUE) EXCEPT !.BlockedPatterns = <<"--headed", "rm -rf /", "rm -rf ~">>,
                                                !.DangerousCommands = <<"rm -rf ./build">>]
                ELSE IF n = "formatter" THEN [ToolConfig(TRUE) EXCEPT !.TSFormat = TRUE]
                ELSE ToolConfig(TRUE)]]

\* DefaultConfig with every checker switched off
DisabledConfig ==
  [Validators |-> [n \in ValidatorNames |-> [DefaultConfig.Validators[n] EXCEPT !.Enabled = FALSE]],
   Tools |-> [n \in ToolNames |-> [DefaultConfig.Tools[n] EXCEPT !.Enabled = FALSE]]]

CKConfigs == {DefaultConfig, TestConfig, ExceptionsConfig, DisabledConfig}

\* the constructor of the named checker on its configuration entry
NewChecker(c, name) ==
  CASE name = "emergency_defaults" -> NewEmergencyDefaultsValidator(c.Validators[name])
    [] name = "runtime_exit" -> NewRuntimeExitValidator(c.Validators[name])
    [] name = "secrets" -> NewSecretsValidator(c.Validators[name])
    [] name = "bash" -> NewBashTool(c.Tools[name])
    [] name = "formatter" -> NewFormatterTool(c.Tools[name])
    [] name = "notifier" -> NewNotifierTool(c.Tools[name])

CKPaths ==
  {"src/handler.go", "src/wallet.ts", "config/test-config.ts", "pkg/wallet_test.go",
   "app/fixtures/keys.json", "docs/readme.go", "test/test_helper.go", "notes.cfg",
   "/app/cmd/app/main.go", "service.py"}

CKContents ==
  {"x := 1",
   "w := \"0x1234567890abcdef1234567890abcdef12345678\"",
   "return fallback\n  panic(\"0xABCDEFabcdef0123456789ABCDEFabcdef012345678\")",
   "h := 0x1234567890abcdef"}

CKCommands == {"", "rm -rf /", "rm -rf ./build", "npx playwright test --headed; rm -rf ~"}

CKEvents ==
  {<<"Write", ToolData(p, c, "", "")>> : p \in CKPaths, c \in CKContents}
  \cup {<<"Bash", ToolData("", "", "", k)>> : k \in CKCommands}
  \cup {<<"Stop", ToolData("", "", "", "")>>}

InitCK ==
  /\ config \in CKConfigs
  /\ engine = New(config)
  /\ served = FALSE
  /\ input = ToolInput("Read", "", "", "", "")
  /\ phase = "idle"
  /\ env = NoEnv
  /\ response = NoResponse
  /\ checker \in {NewChecker(config, n) : n \in ValidatorNames \cup ToolNames}
  /\ result = ValidEmpty

\* the event the checker is called on next
NewEvent ==
  /\ \E event \in CKEvents : input' = extractToolSpecificData(event[1], event[2])
  /\ phase' = "idle"
  /\ env' = NoEnv
  /\ response' = NoResponse
  /\ result' = ValidEmpty
  /\ UNCHANGED <<config, engine, served, checker>>

\* an event a caller builds field by field, as the unit tests of the tools do
\* (input := &core.ToolInput{ToolName: "Write", Command: "--headed"})
NewInput ==
  /\ \E kind \in {"Write", "Bash", "Stop"}, path \in {"", "src/handler.go"}, command \in CKCommands :
        input' = ToolInput(kind, path, "", "", command)
  /\ phase' = "idle"
  /\ env' = NoEnv
  /\ response' = NoResponse
  /\ result' = ValidEmpty
  /\ UNCHANGED <<config, engine, served, checker>>

\* tool.ValidateTool(ctx, input) with the caller's context and surroundings
ValidateToolCall ==
  /\ phase = "idle"
  /\ checker.name \in ToolNames
  /\ \E hook \in {"", "pre", "post", "stop"}, format \in {"missing", "ok", "fail"} :
        /\ env' = [NoEnv EXCEPT !.hook = hook, !.format = format]
        /\ result' = ValidateTool(checker, hook, input, env')
  /\ phase' = "validate"
  /\ UNCHANGED <<config, engine, served, input, response, checker>>

NextCK == NewEvent \/ NewInput \/ ValidateFile \/ ValidateToolCall

SpecCK == InitCK /\ [][NextCK]_vars

(***************************************************************************)
(* secrets                                                                 *)
(***************************************************************************)
\* 0x and 40 hexadecimal digits at position p
WalletAt(content, p) ==
  /\ OccursAt(content, "0x", p)
  /\ p + 41 <= Len(content)
  /\ \A q \in (p + 2)..(p + 41) : InClass(At(content, q), HexChars)

WalletIn(content) == \E p \in 1..Len(content) : WalletAt(content, p)

\* the secrets checker, enabled, called on a file with a supported extension
SecretsCovered ==
  /\ phase = "validate"
  /\ checker.name = "secrets"
  /\ checker.enabled
  /\ IsSupportedFileType(input.FilePath, SecretsSupportedExtensions)

\* the result is invalid and holds a critical wallet violation
WalletReported ==
  /\ ~result.IsValid
  /\ \E i \in 1..Len(result.Violations) :
        /\ result.Violations[i].Type = "hardcoded_wallet"
        /\ result.Violations[i].Severity = LevelCritical

\* the path holds one of the configured test-config markers
HasTestConfigMarker == ContainsAny(input.FilePath, checker.testConfigExceptions)

\* the path is exempt from the secrets checker: a configured exception path
\* or test-config marker, a documentation or test file, or one of the
\* checker's own example, template and fixture markers
SecretsExempt ==
  \/ ContainsAny(input.FilePath, checker.exceptions)
  \/ HasTestConfigMarker
  \/ IsDocumentationFile(input.FilePath)
  \/ IsTestFile(input.FilePath)
  \/ ContainsAny(input.FilePath, <<"/example", "/sample", "/template", "/demo",
                                   ".example", ".sample", ".template",
                                   "/fixtures/", "/mocks/", "/stubs/">>)

ConfiguredPatterns ==
  IF config.Tools["bash"].BlockedPatterns # <<>> THEN config.Tools["bash"].BlockedPatterns
  ELSE config.Tools["bash"].DangerousCommands

\* the configured patterns the command contains, by position in the list
PatternsContained ==
  {i \in 1..Len(ConfiguredPatterns) : Contains(input.Command, ConfiguredPatterns[i])}

\* the bash tool, enabled, called on a Bash event with a command
BashCovered ==
  /\ phase = "validate"
  /\ checker.name = "bash"
  /\ checker.enabled
  /\ input.ToolName = "Bash"
  /\ input.Command # ""

\* C13: for the enabled bash tool and a Bash event with a non-empty command
\* the result is invalid iff the command contains a configured blocked
\* pattern as a substring, and it holds one critical violation for each
\* configured pattern contained, in the order of the configuration; rm -rf /
\* is blocked where it is configured, rm -rf ./build is not.
C13_BlockedIffPatternContained ==
  BashCovered =>
    /\ ~result.IsValid <=> PatternsContained # {}
    /\ Len(result.Violations) = Cardinality(PatternsContained)
    /\ \A k \in 1..Len(result.Violations) :
         /\ result.Violations[k].Severity = LevelCritical
         /\ \E i \in PatternsContained :
              /\ Cardinality({j \in PatternsContained : j < i}) = k - 1
              /\ result.Violations[k].Message =
                   "Dangerous bash command detected: " \o ConfiguredPatterns[i]
    /\ ("rm -rf /" \in ElementsOf(ConfiguredPatterns) /\ input.Command = "rm -rf /") => ~result.IsValid
    /\ input.Command = "rm -rf ./build" => result.IsValid

\* a command that contains two of the configured patterns
C13_Witness ==
  /\ BashCovered
  /\ Cardinality(PatternsContained) = 2
  /\ Len(result.Violations) = 2
  /\ ~result.IsValid

(***************************************************************************)
(* Disabled checkers                                                       *)
(***************************************************************************)
\* the enable flag the configuration gives the checker under call
ConfiguredEnabled ==
  IF checker.name \in ValidatorNames THEN config.Validators[checker.name].Enabled
  ELSE config.Tools[checker.name].Enabled

\* C14: each of the three validators and the three tools, constructed with
\* Enabled false, returns for every input a valid result without
\* violations, suggestions or replacement input (the checkers return no
\* error at all).
C14_DisabledReturnsValidEmpty ==
  (phase = "validate" /\ ~ConfiguredEnabled) =>
    /\ result.IsValid
    /\ result.Violations = <<>>
    /\ result.Suggestions = <<>>
    /\ result.ModifiedToolInput = NilInput

\* the disabled notifier called on a Stop event, on which the enabled one
\* reports
C14_Witness ==
  /\ phase = "validate"
  /\ ~ConfiguredEnabled
  /\ checker.name = "notifier"
  /\ input.ToolName = "Stop"
  /\ result = ValidEmpty

(***************************************************************************)
(* Exception files                                                         *)
(***************************************************************************)
\* an enabled validator was called on the event's file
RuleCheckerCalled ==
  /\ phase = "validate"
  /\ checker.name \in ValidatorNames
  /\ checker.enabled

\* the path holds a configured exception substring, or is a documentation
\* file, or is a test file
ExemptPath(path) ==
  \/ \E i \in 1..Len(config.Validators[checker.name].ExceptionPaths) :
        Contains(path, config.Validators[checker.name].ExceptionPaths[i])
  \/ IsDocumentationFile(path)
  \/ IsTestFile(path)

\* the content holds what the validator under call looks for
ContentViolates(content) ==
  CASE checker.name = "emergency_defaults" ->
         \E n \in 1..LineCount(content) :
           KeywordIn(LineAt(content, n)) /\ Scanned(LineAt(content, n))
    [] checker.name = "runtime_exit" -> ExitCallOccurrences(content) # {}
    [] checker.name = "secrets" -> WalletIn(content)

SuggestionPool == {EDGenerateSuggestions[1], EDGenerateSuggestions[2], "Go file formatted"}

InitDD ==
  /\ config = EmptyConfig
  /\ engine = New(config)
  /\ served = FALSE
  /\ input = ToolInput("Read", "", "", "", "")
  /\ phase = "idle"
  /\ env = NoEnv
  /\ response = NoResponse
  /\ checker = NoChecker
  /\ result = ValidEmpty

\* allSuggestions = append(allSuggestions, ...): a checker's next suggestion
Suggest ==
  /\ phase = "idle"
  /\ Len(result.Suggestions) < MaxSuggestions
  /\ \E s \in SuggestionPool : result' = [result EXCEPT !.Suggestions = Append(@, s)]
  /\ UNCHANGED <<config, engine, served, input, phase, env, response, checker>>

\* Suggestions: e.deduplicateSuggestions(allSuggestions)
Deduplicate ==
  /\ phase = "idle"
  /\ response' = [NoResponse EXCEPT !.Suggestions = deduplicateSuggestions(result.Suggestions)]
  /\ phase' = "dedup"
  /\ UNCHANGED <<config, engine, served, input, env, checker, result>>

NextDD == Suggest \/ Deduplicate

SpecDD == InitDD /\ [][NextDD]_vars

\* the first position of s in seq
FirstIndex(seq, s) == CHOOSE i \in 1..Len(seq) : seq[i] = s /\ \A j \in 1..(i - 1) : seq[j] # s

\* C16: the Decision's suggestion list holds no string twice, holds every
\* string of the merged list and no other, orders them by their first
\* occurrence in the merged list, and deduplicating it again changes
\* nothing.
C16_DeduplicatedFirstSeen ==
  phase = "dedup" =>
    /\ \A i, j \in 1..Len(response.Suggestions) :
         i # j => response.Suggestions[i] # response.Suggestions[j]
    /\ ElementsOf(response.Suggestions) = ElementsOf(result.Suggestions)
    /\ \A i, j \in 1..Len(response.Suggestions) :
         i < j => FirstIndex(result.Suggestions, response.Suggestions[i])
                    < FirstIndex(result.Suggestions, response.Suggestions[j])
    /\ deduplicateSuggestions(response.Suggestions) = response.Suggestions

\* a merged list with a repeated suggestion between two others
C16_Witness ==
  /\ phase = "dedup"
  /\ Len(result.Suggestions) = 4
  /\ result.Suggestions[1] = result.Suggestions[3]
  /\ result.Suggestions[2] # result.Suggestions[1]
  /\ result.Suggestions[4] \notin {result.Suggestions[1], result.Suggestions[2]}
  /\ Len(response.Suggestions) = 3

(***************************************************************************)
(* The engine's phases, errors and cancellation.                           *)
(***************************************************************************)
\* C17: a post-action Decision holds no violation of the bash tool or the
\* notifier and is never block.
C17_PostNeverBlocks ==
  phase = "post" =>
    /\ response.Action # HookActionBlock
    /\ \A i \in 1..Len(response.Violations) :
         response.Violations[i].Type \notin {"dangerous_bash_command", "notification_sent"}

\* the tools of the engine that take the event and fail in this call
FailedTools ==
  {i \in 1..Len(engine.tools) :
     /\ toolSupportsOperation(engine.tools[i], input.ToolName)
     /\ engine.tools[i].name \in env.faults}

FailedValidators == {i \in 1..Len(engine.validators) : engine.validators[i].name \in env.faults}

\* what the validators that do not fail return for the event's file, in the
\* order of the engine
RemainingResults ==
  LET file == CreateFileAnalysis(input)
      kept == SelectSeq(engine.validators, LAMBDA v : v.name \notin env.faults)
  IN  [i \in 1..Len(kept) |-> Validate(kept[i], file)]

\* the validators ran in this pre-action call
ValidatorsRan == phase = "pre" /\ isFileOperation(input.ToolName) /\ input.FilePath # ""

\* C19: when a validator returns an error in a pre-action call, the call
\* still returns a Decision without error; the Decision's violations start
\* with those of the remaining validators, in their order, and its
\* suggestions hold all of theirs.
C19_FailedValidatorSkipped ==
  (ValidatorsRan /\ FailedValidators # {}) =>
    LET expected == Flatten([i \in 1..Len(RemainingResults) |-> RemainingResults[i].Violations])
    IN  /\ response.err = None
        /\ Len(response.Violations) >= Len(expected)
        /\ SubSeq(response.Violations, 1, Len(expected)) = expected
        /\ \A i \in 1..Len(RemainingResults) :
             ElementsOf(RemainingResults[i].Suggestions) \subseteq ElementsOf(response.Suggestions)
        /\ LET failedTypes ==
                 UNION {{v.Type : v \in ElementsOf(Validate(engine.validators[k],
                                                            CreateFileAnalysis(input)).Violations)} :
                          k \in FailedValidators}
           IN  \A i \in 1..Len(response.Violations) : response.Violations[i].Type \notin failedTypes

\* the first validator failed on a file that it and a later validator
\* report: the later one's violation is in the Decision
C19_Witness ==
  /\ ValidatorsRan
  /\ Len(engine.validators) > 1
  /\ engine.validators[1].name \in env.faults
  /\ ~Validate(engine.validators[1], CreateFileAnalysis(input)).IsValid
  /\ response.err = None
  /\ response.Action = HookActionBlock
  /\ \E i \in 1..Len(response.Violations) : response.Violations[i].Type = "critical_exit"

\* C20: a call made with a context that is cancelled already runs no
\* checker: it returns an error, or a Decision without any checker's
\* violations and suggestions.
C20_CancellationHonored ==
  (phase \in {"pre", "post", "stop"} /\ env.cancelled) =>
    \/ response.err # None
    \/ response.Violations = <<>> /\ response.Suggestions = <<>>

(***************************************************************************)
(* The Decision's message and rewritten event.                             *)
(***************************************************************************)
\* the generic messages of the three phases
GenericMessages ==
  {"Operation allowed", "Operation blocked", "Warning", "Stop processing completed"}
  \cup {"Post-processing for " \o input.ToolName \o suffix :
          suffix \in {" blocked", " completed with warnings", " completed"}}

\* C21 as stated: in every phase, a Decision with violations carries the
\* message of its first violation, and a Decision without violations a
\* generic message.
C21_Original ==
  (phase \in {"pre", "post", "stop"} /\ response.err = None) =>
    IF Len(response.Violations) > 0
      THEN response.Message = response.Violations[1].Message
      ELSE response.Message \in GenericMessages

\* C21: a pre-action Decision that blocks or warns carries the message of
\* its first violation and one that allows carries "Operation allowed"; a
\* post-action Decision carries the post-processing message of its action
\* and event kind and a session-end Decision the stop message, whatever
\* their violations are.
C21_MessageByPhase ==
  /\ (phase = "pre" /\ response.err = None) =>
        /\ response.Action \in {HookActionBlock, HookActionWarn} =>
              /\ Len(response.Violations) > 0
              /\ response.Message = response.Violations[1].Message
        /\ response.Action = HookActionAllow => response.Message = "Operation allowed"
        /\ Len(response.Violations) = 0 => response.Action = HookActionAllow
  /\ phase = "post" =>
        response.Message =
          "Post-processing for " \o input.ToolName \o
            (CASE response.Action = HookActionBlock -> " blocked"
               [] response.Action = HookActionWarn -> " completed with warnings"
               [] OTHER -> " completed")
  /\ phase = "stop" => response.Message = "Stop processing completed"

\* a pre-action Decision with violations of two checkers, whose messages
\* differ, carries the first one's
C21_Witness ==
  /\ phase = "pre"
  /\ response.err = None
  /\ Len(response.Violations) > 1
  /\ response.Violations[Len(response.Violations)].Message # response.Violations[1].Message
  /\ response.Message = response.Violations[1].Message

(***************************************************************************)
(* Pre-action calls of an Engine whose tool list holds, next to the bash   *)
(* tool, tool checkers that return rewritten events (none of the three     *)
(* tools of the package does).                                             *)
(***************************************************************************)
RewriterNames == {"sanitizer", "expander"}

TVToolLists ==
  LET bash == NewBashTool(DefaultConfig.Tools["bash"])
      a == NewRewriterTool("sanitizer")
      b == NewRewriterTool("expander")
  IN  {<<a, bash>>, <<bash, a>>, <<a, b>>, <<a, b, bash>>, <<a, bash, b>>}

\* what a rewriting tool returns in ModifiedToolInput
TVRewrites == {None, "<same>", "ls", "rm -rf ~"}

TVCommands == {"ls -la", "rm -rf /"}

InitTV ==
  /\ config = DefaultConfig
  /\ \E tools \in TVToolLists : engine = [New(config) EXCEPT !.tools = tools]
  /\ served = FALSE
  /\ input = ToolInput("Bash", "", "", "", "ls -la")
  /\ phase = "idle"
  /\ env = NoEnv
  /\ response = NoResponse
  /\ checker = NoChecker
  /\ result = ValidEmpty

\* the next Bash event arrives
NewCommand ==
  /\ \E command \in TVCommands :
        input' = extractToolSpecificData("Bash", ToolData("", "", "", command))
  /\ phase' = "idle"
  /\ env' = NoEnv
  /\ response' = NoResponse
  /\ served' = (served \/ phase = "pre")
  /\ UNCHANGED <<config, engine, checker, result>>

PreToolUseRewriting ==
  /\ phase = "idle"
  /\ \E faults \in FaultSets(engine), rewrites \in [RewriterNames -> TVRewrites] :
        /\ env' = [NoEnv EXCEPT !.faults = faults, !.rewrites = rewrites]
        /\ response' = ProcessPreToolUse(engine, input, env')
  /\ phase' = "pre"
  /\ UNCHANGED <<config, engine, served, input, checker, result>>

NextTV == NewCommand \/ PreToolUseRewriting

SpecTV == InitTV /\ [][NextTV]_vars

\* the positions of the tools that ran in this call without error
RanTools ==
  {i \in 1..Len(engine.tools) :
     /\ toolSupportsOperation(engine.tools[i], input.ToolName)
     /\ engine.tools[i].name \notin env.faults}

\* tool i ran and returned a rewritten event: a new event, not the one it
\* was handed
Rewrote(i) ==
  /\ i \in RanTools
  /\ engine.tools[i].name \in DOMAIN env.rewrites
  /\ env.rewrites[engine.tools[i].name] \notin {None, "<same>"}

\* the command of the most recent rewritten event returned before tool i,
\* the original event's when there is none
HandedCommand(i) ==
  LET before == {j \in 1..(i - 1) : Rewrote(j)}
  IN  IF before = {} THEN input.Command
      ELSE env.rewrites[engine.tools[CHOOSE j \in before : \A k \in before : k <= j].name]

\* C22: in a pre-action call every tool checker that runs is handed the most
\* recent rewritten event returned by an earlier one (the original event
\* when there is none): a rewriting tool reports the command of that event,
\* the bash tool reports the blocked patterns of that event's command and no
\* others.  The Decision carries a rewritten event exactly when some tool
\* checker returned one, and it is the last one returned.
C22_RewrittenEventThreaded ==
  (phase = "pre" /\ response.err = None) =>
    /\ \A i \in RanTools :
         LET tool == engine.tools[i] IN
         IF tool.name = "bash"
           THEN \A k \in 1..Len(tool.blockedPatterns) :
                  Contains(HandedCommand(i), tool.blockedPatterns[k]) <=>
                    \E v \in 1..Len(response.Violations) :
                       response.Violations[v].Message =
                         "Dangerous bash command detected: " \o tool.blockedPatterns[k]
           ELSE {s \in ElementsOf(response.Suggestions) : HasPrefix(s, tool.name \o " got: ")}
                  = {tool.name \o " got: " \o HandedCommand(i)}
    /\ IF \E i \in RanTools : Rewrote(i)
         THEN /\ ~response.ModifiedToolInput.nil
              /\ response.ModifiedToolInput.Command = HandedCommand(Len(engine.tools) + 1)
              /\ response.ModifiedToolInput.ToolName = input.ToolName
         ELSE response.ModifiedToolInput.nil

\* a blocked command is rewritten by the first tool; the bash tool after it
\* and the second rewriting tool get the rewritten command, the Decision
\* allows and carries the second tool's event
C22_Witness ==
  /\ phase = "pre"
  /\ response.err = None
  /\ Len(engine.tools) = 3
  /\ RanTools = {1, 2, 3}
  /\ engine.tools[2].name = "bash"
  /\ Contains(input.Command, "rm -rf /")
  /\ env.rewrites["sanitizer"] = "ls"
  /\ env.rewrites["expander"] = "rm -rf ~"
  /\ response.Action = HookActionAllow
  /\ response.ModifiedToolInput.Command = "rm -rf ~"

(***************************************************************************)
(* Positions of the violations.                                            *)
(***************************************************************************)
\* the texts the forbidden-keyword checker reports, and the call names the
\* termination checker reports
OffendingTexts ==
  IF checker.name = "emergency_defaults" THEN {Keyword, "||", "??", ":-"}
  ELSE {exitPatterns[i].elems[1].alts[1] : i \in 1..Len(exitPatterns)}

\* C23: every violation of a content checker's result carries a line of the
\* scanned content and the column at which an offending text starts in that
\* line as it was given.
C23_PositionInScannedContent ==
  (phase = "validate" /\ checker.name \in {"emergency_defaults", "runtime_exit"}) =>
    \A i \in 1..Len(result.Violations) :
      LET v == result.Violations[i] IN
      /\ v.Line \in 1..LineCount(input.Content)
      /\ \E text \in OffendingTexts :
           LET line == LineAt(input.Content, v.Line) IN
           /\ v.Column >= 1
           /\ v.Column + Len(text) - 1 <= Len(line)
           /\ EqualFold(SubSeq(line, v.Column, v.Column + Len(text) - 1), text)

(***************************************************************************)
(* The session-end call step by step.  NotifierTool.ValidateTool starts a  *)
(* goroutine for the sound command and one for notify-send, as far as the  *)
(* commands are installed, and calls wg.Wait(); each goroutine runs its    *)
(* command and calls wg.Done().                                            *)
(***************************************************************************)
\* the notifier of the engine runs in a session-end call
NotifierRuns ==
  \E i \in 1..Len(engine.tools) :
     /\ engine.tools[i].name = "notifier"
     /\ engine.tools[i].enabled
     /\ toolSupportsOperation(engine.tools[i], "Stop")

\* the WaitGroup's counter
WaitGroupCounter == Cardinality({t \in DOMAIN env.tasks : env.tasks[t] = "running"})

InitNT ==
  /\ config \in EngineConfigs
  /\ engine = New(config)
  /\ served = FALSE
  /\ input = ToolInput("Stop", "", "", "", "")
  /\ phase = "idle"
  /\ env = NoEnv
  /\ response = NoResponse
  /\ checker = NoChecker
  /\ result = ValidEmpty

\* ProcessStop is called and runs up to wg.Wait(): tryPlaySound and
\* sendDesktopNotification have started a goroutine each for the commands
\* exec.LookPath finds
StopBegin ==
  /\ phase = "idle"
  /\ \E project \in {"unknown", "hooks"}, installed \in SUBSET {"sound", "notify-send"} :
        env' = [NoEnv EXCEPT !.project = project,
                             !.tasks = [t \in (IF NotifierRuns THEN installed ELSE {}) |-> "running"]]
  /\ phase' = "notifying"
  /\ UNCHANGED <<config, engine, served, input, response, checker, result>>

\* a goroutine's cmd.Run() returns, with or without error; defer wg.Done()
TaskEnd ==
  /\ phase = "notifying"
  /\ \E t \in DOMAIN env.tasks, outcome \in {"ok", "failed"} :
        /\ env.tasks[t] = "running"
        /\ env' = [env EXCEPT !.tasks[t] = outcome]
  /\ UNCHANGED <<config, engine, served, input, phase, response, checker, result>>

\* StopReturn that does not wait for the goroutines
StopReturnNoWait ==
  /\ phase = "notifying"
  /\ response' = ProcessStop(engine, env)
  /\ phase' = "stop"
  /\ UNCHANGED <<config, engine, served, input, env, checker, result>>

\* wg.Wait() returns, ValidateTool and ProcessStop return the Decision
StopReturn ==
  /\ phase = "notifying"
  /\ WaitGroupCounter = 0
  /\ response' = ProcessStop(engine, env)
  /\ phase' = "stop"
  /\ UNCHANGED <<config, engine, served, input, env, checker, result>>

\* the process of the next session end
NextSession ==
  /\ phase = "stop"
  /\ phase' = "idle"
  /\ env' = NoEnv
  /\ response' = NoResponse
  /\ served' = TRUE
  /\ UNCHANGED <<config, engine, input, checker, result>>

NextNT == StopBegin \/ TaskEnd \/ StopReturn \/ NextSession

SpecNT == InitNT /\ [][NextNT]_vars

MatchingRules(line) ==
  LET trimmed == TrimSpace(line) IN
  {k \in 1..4 :
     \/ k = 1 /\ KeywordIn(trimmed)
     \/ k = 2 /\ Contains(trimmed, "||") /\ hasLiteralAfterOr(trimmed)
     \/ k = 3 /\ Contains(trimmed, "??") /\ hasLiteralAfterNullish(trimmed)
     \/ k = 4 /\ Contains(trimmed, ":-") /\ Contains(trimmed, "}")}

RuleMessages ==
  <<"forbidden word in executable code", "|| default pattern", "?? default pattern",
    "bash default pattern">>

NonBlankLines(content) ==
  {n \in 1..LineCount(content) : TrimSpace(LineAt(content, n)) # ""}

\* C25: in the forbidden-keyword checker's result no two violations share a
\* line number, there are no more violations than non-blank lines, and a
\* scanned line that matches several rules has the one violation of the
\* first of them in the order keyword, || literal, ?? literal, shell default.
C25_OneViolationPerLine ==
  (phase = "validate" /\ checker.name = "emergency_defaults") =>
    /\ \A i, j \in 1..Len(result.Violations) :
         i # j => result.Violations[i].Line # result.Violations[j].Line
    /\ Len(result.Violations) <= Cardinality(NonBlankLines(input.Content))
    /\ \A i \in 1..Len(result.Violations) :
         result.Violations[i].Line \in NonBlankLines(input.Content)
    /\ DefaultsCovered =>
         \A n \in 1..LineCount(input.Content) :
           LET line == LineAt(input.Content, n)
               rules == MatchingRules(line)
               at == AtLine(result.Violations, n)
           IN  (Scanned(line) /\ rules # {}) =>
                 /\ Cardinality(at) = 1
                 /\ \A i \in at :
                      result.Violations[i].Message =
                        RuleMessages[CHOOSE k \in rules : \A m \in rules : k <= m]

\* a blank line and a line that matches the || rule, the ?? rule and the
\* shell rule: one violation, of the || rule
C25_Witness ==
  /\ DefaultsCovered
  /\ LineCount(input.Content) = 2
  /\ Cardinality(NonBlankLines(input.Content)) = 1
  /\ \E n \in NonBlankLines(input.Content) : MatchingRules(LineAt(input.Content, n)) = {2, 3, 4}
  /\ Len(result.Violations) = 1
  /\ result.Violations[1].Message = "|| default pattern"

(***************************************************************************)
(* The termination checker's contextual suggestions.                       *)
(***************************************************************************)
RecoverSuggestions ==
  {"recover() must be architecturally justified", "consider alternatives for error handling"}

MainSuggestions ==
  {"main() may use critical logging for init errors", "consider cobra.Command with RunE"}

\* the termination checker has looked at the content of the event's file
ExitScanned ==
  /\ phase = "validate"
  /\ ExitCovered
  /\ ExitNotSkipped

\* C26 as stated: for a non-exempt file, the result's suggestions include
\* the recovery suggestions when the content holds recover() and the
\* entrypoint suggestions when it holds func main(), also when the content
\* has no termination call.
C26_Original ==
  ExitScanned =>
    /\ containsRecoverPattern(input.Content) =>
          RecoverSuggestions \subseteq ElementsOf(result.Suggestions)
    /\ Contains(input.Content, "func main()") =>
          MainSuggestions \subseteq ElementsOf(result.Suggestions)

\* C26: for a non-exempt file whose content has a termination call, the
\* result's suggestions include the recovery suggestions exactly when the
\* content holds recover() and the entrypoint suggestions exactly when it
\* holds func main(); for a content without termination call the result is
\* valid and has no suggestion at all.
C26_ContextualOnlyWithViolation ==
  ExitScanned =>
    IF ExitCallOccurrences(input.Content) # {}
      THEN /\ ~result.IsValid
           /\ containsRecoverPattern(input.Content) <=>
                 RecoverSuggestions \subseteq ElementsOf(result.Suggestions)
           /\ ~containsRecoverPattern(input.Content) =>
                 RecoverSuggestions \cap ElementsOf(result.Suggestions) = {}
           /\ Contains(input.Content, "func main()") <=>
                 MainSuggestions \subseteq ElementsOf(result.Suggestions)
           /\ ~Contains(input.Content, "func main()") =>
                 MainSuggestions \cap ElementsOf(result.Suggestions) = {}
      ELSE result.IsValid /\ result.Violations = <<>> /\ result.Suggestions = <<>>

\* a file with a recovery construct and a termination call: the recovery
\* suggestions are in the result, the entrypoint suggestions are not
C26_Witness ==
  /\ ExitScanned
  /\ containsRecoverPattern(input.Content)
  /\ ~Contains(input.Content, "func main()")
  /\ ExitCallOccurrences(input.Content) # {}
  /\ RecoverSuggestions \subseteq ElementsOf(result.Suggestions)
  /\ MainSuggestions \cap ElementsOf(result.Suggestions) = {}

(***************************************************************************)
(* The pattern matcher.                                                    *)
(***************************************************************************)
\* the place of the pattern with source text src in the list handed over
PatternIndex(src) ==
  CHOOSE k \in 1..Len(PatternsOf(checker)) : PatternsOf(checker)[k].src = src

\* pattern k matches in line from column c on
MatchesAt(line, k, c) == MatchFrom(line, c, PatternsOf(checker)[k].elems, 1) # 0

\* C27: the slice the pattern matcher returns holds, for every line and
\* pattern, the non-overlapping occurrences of the pattern in the line from
\* left to right: every match is an occurrence with its 1-based line and
\* column, its text and its pattern; every place where the pattern matches
\* lies within a reported match; matches of a line and pattern do not
\* overlap; the slice is ordered by line, then by the pattern's place in
\* the list, then by column.  Empty content gives the empty slice.
C27_MatchPerOccurrence ==
  phase = "matched" =>
    LET patterns == PatternsOf(checker)
        content == input.Content
        n == Len(result)
    IN  /\ \A i \in 1..n :
             LET m == result[i]
                 line == LineAt(content, m.Line)
             IN  /\ m.Line \in 1..LineCount(content)
                 /\ \E k \in 1..Len(patterns) : patterns[k].src = m.Pattern
                 /\ m.Column \in 1..Len(line)
                 /\ m.Text # ""
                 /\ m.Text = SubSeq(line, m.Column, m.Column + Len(m.Text) - 1)
                 /\ MatchFrom(line, m.Column, patterns[PatternIndex(m.Pattern)].elems, 1)
                      = m.Column + Len(m.Text)
        /\ \A l \in 1..LineCount(content), k \in 1..Len(patterns) :
             \A c \in 1..Len(LineAt(content, l)) :
               MatchesAt(LineAt(content, l), k, c) =>
                 \E i \in 1..n :
                    /\ result[i].Line = l
                    /\ result[i].Pattern = patterns[k].src
                    /\ result[i].Column <= c
                    /\ c < result[i].Column + Len(result[i].Text)
        /\ \A i, j \in 1..n :
             i < j =>
               LET a == result[i]
                   b == result[j]
               IN  \/ a.Line < b.Line
                   \/ a.Line = b.Line /\ PatternIndex(a.Pattern) < PatternIndex(b.Pattern)
                   \/ /\ a.Line = b.Line
                      /\ a.Pattern = b.Pattern
                      /\ a.Column + Len(a.Text) <= b.Column
        /\ content = "" => result = <<>>

\* two lines: in the first a later pattern of the list matches left of an
\* earlier one, in the second one pattern occurs twice
C27_Witness ==
  /\ phase = "matched"
  /\ Len(result) = 4
  /\ result[1].Line = 1 /\ result[2].Line = 1
  /\ result[1].Column > result[2].Column
  /\ result[3].Line = 2 /\ result[4].Line = 2
  /\ result[3].Pattern = result[4].Pattern
  /\ result[3].Column < result[4].Column

(***************************************************************************)
(* The tool checkers outside their event kind and phase.                   *)
(***************************************************************************)
\* the call's result is valid and holds nothing
NoOpResult ==
  /\ result.IsValid
  /\ result.Violations = <<>>
  /\ result.Suggestions = <<>>
  /\ result.ModifiedToolInput.nil

\* C28: called directly, the formatter returns a valid result without
\* violations in every phase other than post, the notifier for every event
\* kind other than Stop, the bash tool for every event kind other than Bash,
\* whatever the event's command field holds.
C28_NoOpOutsideKindAndPhase ==
  (phase = "validate" /\ checker.name \in ToolNames) =>
    /\ (checker.name = "formatter" /\ env.hook # "post") => NoOpResult
    /\ (checker.name = "notifier" /\ input.ToolName # "Stop") => NoOpResult
    /\ (checker.name = "bash" /\ input.ToolName # "Bash") => NoOpResult

\* the enabled bash tool called on a Write event whose command field holds
\* one of its blocked patterns
C28_Witness ==
  /\ phase = "validate"
  /\ checker.name = "bash"
  /\ checker.enabled
  /\ input.ToolName = "Write"
  /\ \E k \in 1..Len(checker.blockedPatterns) : Contains(input.Command, checker.blockedPatterns[k])
  /\ NoOpResult

(***************************************************************************)
(* C29.  Which events the rule checkers see in the pre-action call.        *)
(***************************************************************************)

\* the violation types the tool checkers report
ToolViolationTypes == {"dangerous_bash_command", "format_error", "notification_sent"}

\* the event is a file write: a Write, Edit or MultiEdit with a file path
FileWrite == input.ToolName \in {"Write", "Edit", "MultiEdit"} /\ input.FilePath # ""

\* C29: in a pre-action call that returns a Decision, the rule checkers
\* run if and only if the event is a Write, Edit or MultiEdit with a
\* non-empty file path: then the Decision starts with what all of them
\* report on the file; for every other event every violation of the Decision
\* is a tool checker's.  In both cases what the tool checkers that support
\* the event kind report follows, and the suggestions are those of the rule
\* checkers (if they ran) and of the tool checkers.
C29_RuleCheckersOnFileWritesOnly ==
  (phase = "pre" /\ response.err = None) =>
    \A rule \in {IF FileWrite THEN runValidators(engine, CreateFileAnalysis(input), env)
                  ELSE [violations |-> <<>>, suggestions |-> <<>>, err |-> None]},
       tool \in {runToolValidators(engine, "pre", input, env)} :
      /\ response.Violations = rule.violations \o tool.violations
      /\ response.Suggestions = deduplicateSuggestions(rule.suggestions \o tool.suggestions)
      /\ ~FileWrite =>
           \A i \in 1..Len(response.Violations) :
             response.Violations[i].Type \in ToolViolationTypes

\* a Bash event that carries a file path and a panic call at its top level
\* went through pre-action with the rule checkers and the bash checker
\* enabled: the Decision holds the bash checker's violation and nothing of
\* the rule checkers
C29_Witness ==
  /\ phase = "pre"
  /\ response.err = None
  /\ config \in FWConfigs
  /\ input.ToolName = "Bash"
  /\ input.FilePath = "service.go"
  /\ input.Content = "panic(\"boom\")"
  /\ Len(runValidators(engine, CreateFileAnalysis(input), env).violations) > 0
  /\ Len(response.Violations) = 1
  /\ response.Violations[1].Type = "dangerous_bash_command"

(***************************************************************************)
(* C30.  How the configured exception entries are matched.                 *)
(***************************************************************************)

\* the exception entries the checker under call was configured with: its
\* exception paths, test exceptions and test-config exceptions
ExceptionEntries == checker.exceptions \o checker.testExceptions \o checker.testConfigExceptions

\* the entry holds no glob wildcard
NotGlob(entry) == ~Contains(entry, "*")

\* the checker under call, configured without its glob entries
WithoutGlobEntries ==
  [checker EXCEPT !.exceptions = SelectSeq(@, NotGlob),
                  !.testExceptions = SelectSeq(@, NotGlob),
                  !.testConfigExceptions = SelectSeq(@, NotGlob)]

\* C30: a configured exception entry is matched as a literal substring of
\* the file path.  A path that contains the text of an entry is exempt (the
\* result is valid and empty); and a glob entry such as *_test.go or
\* *test*.json counts only for a path that contains its exact text, * included:
\* for every other path the checker returns what it returns when configured
\* without its glob entries.
C30_ExceptionsAreLiteralSubstrings ==
  phase = "validate" =>
    /\ ContainsAny(input.FilePath, ExceptionEntries) => result = ValidEmpty
    /\ (~\E k \in 1..Len(ExceptionEntries) :
           ~NotGlob(ExceptionEntries[k]) /\ Contains(input.FilePath, ExceptionEntries[k]))
         => result = Validate(WithoutGlobEntries, CreateFileAnalysis(input))

\* the secrets checker of the default configuration, which lists *test*.json,
\* reported the wallet address written to cfg/mytest1.json
C30_Witness ==
  /\ phase = "validate"
  /\ checker.name = "secrets"
  /\ \E k \in 1..Len(checker.testConfigExceptions) : checker.testConfigExceptions[k] = "*test*.json"
  /\ input.FilePath = "cfg/mytest1.json"
  /\ GlobMatch(input.FilePath, "*test*.json")
  /\ ~result.IsValid
  /\ \E i \in 1..Len(result.Violations) : result.Violations[i].Type = "hardcoded_wallet"

====
